---- MODULE Spec2Model ----
(***************************************************************************)
(* A model of blick's Vulkan backend (crates/blick/src/vulkan): the        *)
(* render-pass and framebuffer caches, the swapchain frame protocol and    *)
(* descriptor-set updates.                                                 *)
(*                                                                         *)
(* Driver objects are numbered in creation order; a raw handle is the      *)
(* object's number.  Reference counting (Arc) is modelled by an explicit   *)
(* strong count per object; Drop runs when the count reaches zero.         *)
(***************************************************************************)
EXTENDS Integers, Sequences, FiniteSets, TLC

(***************************************************************************)
(* Bounds of the exploration.                                              *)
(***************************************************************************)
\* Distinct descriptors a caller chooses from in the free exploration.
NumDescs == 3
\* Largest capacity given to a cache in the free exploration, besides the
\* capacity Device::new gives it.
MaxCacheSize == 2
\* get_or_create calls per behaviour of the free exploration.
MaxCalls == 4
\* get_or_create calls made after the cache was filled past its capacity,
\* in the fill scenario.
MaxProbes == 2
\* begin_frame calls per behaviour.
MaxFrames == 2
\* Binding indices 0..NumBindings-1 a layout or an update entry may name.
NumBindings == 3
\* Entries in one descriptor-set update.
MaxEntries == 2
\* update calls per behaviour.
MaxUpdates == 2
\* Largest extent of the sample of surface extents and requested sizes.
MaxExtent == 2
\* Number of resize_swapchain calls in a behaviour.
MaxResizes == 2
\* Buffers and images created in a behaviour.
MaxResources == 2
\* Distinct image-view descriptors requested.
NumViewDescs == 2
\* Threads that request image views.
NumThreads == 2
\* Image views made in a behaviour of SpecResource.
MaxViews == 2
\* Command buffers.
NumCommandBuffers == 1
\* Commands recorded in a behaviour, over all command buffers.
MaxCommands == 4
\* Calls made in a behaviour of SpecRecording.
MaxRecorded == 4
\* Encoders opened in a behaviour, over all command buffers.
MaxEncoders == 2
\* Pipelines an encoder can bind.
NumPipelines == 2

(***************************************************************************)
(* Program constants.                                                      *)
(***************************************************************************)
RENDER_PASS_CACHE_SIZE == 16
FRAMEBUFFER_CACHE_SIZE == 16
\* std::u32::MAX, the width a surface reports when it has no fixed extent.
\* TLC's integers end at 2^31 - 1, so that value stands for 2^32 - 1: it is
\* the greatest u32 of the model as u32::MAX is the greatest u32, and the
\* code only compares with it.
U32_MAX == 2147483647
\* BufferUsage::MAP_READ, ::MAP_WRITE and BufferUsage::all().bits().
MAP_READ == 1
MAP_WRITE == 2
BufferUsage_all == 511
\* ImageUsage::all().bits().
ImageUsage_all == 63

VARIABLES
    \* ---- object caches (render_pass.rs, framebuffer.rs)
    cacheKind,  \* which of the Device's two caches the behaviour drives
    capacity,   \* LruCache capacity, fixed by RenderPassCache::new(size)
    cache,      \* LruCache contents, most recently used first: <<[key, val]>>
    objects,    \* driver objects created so far: [kind, key, strong, handles, destroyed]
    callLog     \* one record per get_or_create call, oldest first

VARIABLES
    \* ---- the process
    terminated, \* a panic has ended the process
    \* ---- swapchain and frames (backend.rs, swapchain.rs, sync.rs)
    semaphores, \* driver semaphores created so far: <<[alive]>>, raw = position
    swapchain,  \* Backend.swapchain: [raw, images]
    frame,      \* the Frame the caller holds: <<>> or <<Frame>>
    submitted,  \* the caller has submitted the work of the frame it holds
    driverLog,  \* calls that reached the driver, oldest first
    ret         \* the last Backend call: its Frame argument, the driver
                \* calls it made (semaphore destruction aside), its outcome

VARIABLES
    \* ---- descriptor sets (descriptor.rs)
    bindings,       \* DescriptorSet.bindings: binding index -> layout binding
    updateCalls,    \* number of update calls made
    lastUpdate,     \* entries and outcome of the last update call
    writeBatches,   \* number of update_descriptor_sets calls the driver got
    lastBatch       \* the writes of the last of them, as the driver reads them

VARIABLES
    \* ---- swapchain configuration (backend.rs, swapchain.rs)
    surface,        \* what the surface answers when queried: capabilities,
                    \* formats and present modes
    swapchain_desc, \* Backend.swapchain_desc
    swapchains,     \* driver swapchains created so far: <<[alive, destroyed]>>
    swapchainLog,   \* create_swapchain / destroy_swapchain calls, oldest first
    lastResize      \* the last Backend::new / resize_swapchain call

VARIABLES
    \* ---- buffers, images and image views (buffer.rs, image.rs)
    resources,      \* Buffers and Images constructed so far, raw = position,
                    \* each with the driver and allocator calls made for it
    allocations,    \* the allocator's allocations: <<[live, frees]>>
    threads,        \* each thread's position in Image::view
    viewLog,        \* what Image::view has returned: {[image, desc, view]}
    commandBuffers, \* each CommandBuffer: its open encoders and the commands
                    \* recorded into it, oldest first
    commandCall     \* the last call made on a CommandBuffer or an encoder

VARIABLES
    \* ---- memory requests (buffer.rs, image.rs)
    allocationRequest,  \* the BufferDesc or ImageDesc a resource is created from
    allocationDesc      \* the AllocationCreateDesc handed to the allocator for it

VARIABLES
    \* ---- lifetime of the device (device.rs, backend.rs)
    holders,        \* the device's objects created so far and who holds each
    backend,        \* the Backend: whether it, its swapchain and its surface
                    \* still exist, the strong count of the Arc<Instance>,
                    \* the driver objects destroyed so far, oldest first
    deviceInner     \* DeviceInner: its Arc's strong count and the calls of
                    \* its Drop, oldest first

VARIABLES
    \* ---- descriptor pools (descriptor.rs)
    setLayout,      \* the DescriptorSetLayout the sets are created from
    descriptorSets, \* the DescriptorSets created so far: <<[raw, pool, alive]>>
    descriptorPools \* the driver's descriptor pools, by handle: what each was
                    \* created with, the sets allocated from it, its destroys

VARIABLES
    \* ---- threads calling get_or_create (render_pass.rs, framebuffer.rs)
    callers,        \* each thread's position in get_or_create
    cacheLock       \* the thread holding the cache's mutex, 0 when free

VARIABLES
    \* ---- queue operations of the Device (device.rs)
    deviceCall      \* the last of Device::submit, wait, wait_idle and
                    \* reset_fence: its arguments, the driver call it made
                    \* and what it returned

VARIABLES
    \* ---- render passes and framebuffers of one Device (device.rs,
    \* render_pass.rs, framebuffer.rs)
    passDevice,       \* the Device: whether it exists, its caches' capacity
    renderPassCache,  \* Device.render_pass_cache, most recently used first
    framebufferCache, \* Device.framebuffer_cache, most recently used first
    passObjects,      \* the render passes and framebuffers constructed
    passOrder,        \* the objects destroyed, in the order of destruction
    imageViews,       \* each raw image view handle: whether a view with it
                      \* exists and how many views have had it
    attachmentOf,     \* for each framebuffer, the view it was constructed with
    passCall          \* the last create_render_pass / create_framebuffer

VARIABLES
    \* ---- creation of buffers and images (buffer.rs, image.rs)
    createInfo      \* the usage flags of the BufferCreateInfo or
                    \* ImageCreateInfo given to the driver for the request

cacheVars == <<cacheKind, capacity, cache, objects, callLog>>

frameVars == <<semaphores, swapchain, frame, submitted, driverLog, ret>>

descriptorVars == <<bindings, updateCalls, lastUpdate, writeBatches, lastBatch>>

swapchainVars == <<surface, swapchain_desc, swapchains, swapchainLog, lastResize>>

resourceVars == <<resources, allocations, threads, viewLog>>

commandVars == <<commandBuffers, commandCall>>

allocationVars == <<allocationRequest, allocationDesc>>

lifetimeVars == <<holders, backend, deviceInner>>

poolVars == <<setLayout, descriptorSets, descriptorPools>>

callerVars == <<callers, cacheLock>>

queueVars == <<deviceCall>>

passVars == <<passDevice, renderPassCache, framebufferCache, passObjects, passOrder, imageViews, attachmentOf, passCall>>

usageVars == <<createInfo>>

vars == <<cacheVars, terminated, frameVars, descriptorVars, swapchainVars,
          resourceVars, commandVars, allocationVars, lifetimeVars,
          poolVars, callerVars, queueVars, passVars, usageVars>>

None == [some |-> FALSE]
Some(v) == [some |-> TRUE, value |-> v]

(***************************************************************************)
(* Descriptors and keys.                                                   *)
(***************************************************************************)
COLOR_ATTACHMENT_OPTIMAL == "COLOR_ATTACHMENT_OPTIMAL"

\* crate::ColorAttachmentDesc { format, layout }
ColorAttachmentDesc(format) == [format |-> format, layout |-> COLOR_ATTACHMENT_OPTIMAL]

\* The i-th render-pass descriptor a caller may pass: no attachment, one
\* unused attachment slot, or one colour attachment of format i.  Pairwise
\* distinct for distinct i.
RenderPassDescAt(i) ==
    [color_attachments |->
        IF i = 1 THEN <<>>
        ELSE IF i = 2 THEN <<None>>
        ELSE <<Some(ColorAttachmentDesc(i))>>]

\* The i-th framebuffer descriptor: one attachment (image view i) on one of
\* two render passes the caller holds, at a fixed extent.
FramebufferDescAt(i) ==
    [render_pass |-> [raw |-> 1 + (i % 2)],
     attachments |-> <<[image_view |-> [raw |-> i]]>>,
     extent |-> [width |-> 800, height |-> 600]]

\* impl From<&RenderPassDesc> for RenderPassKey: pushes every attachment of
\* the descriptor, in order, onto the key's vector.
RECURSIVE PushAttachments(_, _)
PushAttachments(key, rest) ==
    IF rest = <<>> THEN key
    ELSE PushAttachments(
            [key EXCEPT !.color_attachments = Append(@, Head(rest))],
            Tail(rest))

RenderPassKey_from(desc) ==
    PushAttachments([color_attachments |-> <<>>], desc.color_attachments)

\* impl From<&FramebufferDesc> for FramebufferKey
FramebufferKey_from(desc) ==
    [attachments |-> [i \in 1..Len(desc.attachments) |->
                        desc.attachments[i].image_view.raw],
     render_pass |-> desc.render_pass.raw,
     width |-> desc.extent.width,
     height |-> desc.extent.height,
     layers |-> 1]

(***************************************************************************)
(* lru::LruCache, as the caches use it: a list ordered from most to least  *)
(* recently used, and get_or_insert.                                       *)
(***************************************************************************)
\* Variant: keys are compared by identity, so a key built for a call never
\* equals a stored one.
LruContains_ByIdentity(c, key) == FALSE

LruContains(c, key) == \E i \in 1..Len(c) : c[i].key = key

LruIndexOf(c, key) == CHOOSE i \in 1..Len(c) : c[i].key = key

LruDetach(c, i) == SubSeq(c, 1, i - 1) \o SubSeq(c, i + 1, Len(c))

\* attach: link the node at the head, the most recently used end.
LruAttach(c, e) == <<e>> \o c

\* Variant: a full cache gives up its most recently used entry.
LruGetOrInsert_EvictNewest(c, cap, key, val) ==
    IF LruContains(c, key)
    THEN LET i == LruIndexOf(c, key) IN
         [cache |-> LruAttach(LruDetach(c, i), c[i]),
          hit |-> TRUE, val |-> c[i].val, evicted |-> <<>>]
    ELSE IF Len(c) = cap
    THEN [cache |-> LruAttach(LruDetach(c, 1), [key |-> key, val |-> val]),
          hit |-> FALSE, val |-> val, evicted |-> <<c[1]>>]
    ELSE [cache |-> LruAttach(c, [key |-> key, val |-> val]),
          hit |-> FALSE, val |-> val, evicted |-> <<>>]

\* Variant: a hit returns the value and leaves the order alone (first in,
\* first out).
LruGetOrInsert_NoRefresh(c, cap, key, val) ==
    IF LruContains(c, key)
    THEN LET i == LruIndexOf(c, key) IN
         [cache |-> c, hit |-> TRUE, val |-> c[i].val, evicted |-> <<>>]
    ELSE IF Len(c) = cap
    THEN [cache |-> LruAttach(LruDetach(c, Len(c)), [key |-> key, val |-> val]),
          hit |-> FALSE, val |-> val, evicted |-> <<c[Len(c)]>>]
    ELSE [cache |-> LruAttach(c, [key |-> key, val |-> val]),
          hit |-> FALSE, val |-> val, evicted |-> <<>>]

\* Variant: a miss never evicts.
LruGetOrInsert_NoEvict(c, cap, key, val) ==
    IF LruContains(c, key)
    THEN LET i == LruIndexOf(c, key) IN
         [cache |-> LruAttach(LruDetach(c, i), c[i]),
          hit |-> TRUE, val |-> c[i].val, evicted |-> <<>>]
    ELSE [cache |-> LruAttach(c, [key |-> key, val |-> val]),
          hit |-> FALSE, val |-> val, evicted |-> <<>>]

\* get_or_insert(k, f): a present key is moved to the head and its value
\* returned; an absent key gets the value f() at the head, and when the
\* cache is full the tail node (least recently used) is taken out first and
\* its old value handed back to be dropped.
LruGetOrInsert(c, cap, key, val) ==
    IF LruContains(c, key)
    THEN LET i == LruIndexOf(c, key) IN
         [cache |-> LruAttach(LruDetach(c, i), c[i]),
          hit |-> TRUE, val |-> c[i].val, evicted |-> <<>>]
    ELSE IF Len(c) = cap
    THEN [cache |-> LruAttach(LruDetach(c, Len(c)), [key |-> key, val |-> val]),
          hit |-> FALSE, val |-> val, evicted |-> <<c[Len(c)]>>]
    ELSE [cache |-> LruAttach(c, [key |-> key, val |-> val]),
          hit |-> FALSE, val |-> val, evicted |-> <<>>]

(***************************************************************************)
(* Arc<RenderPassInner> / Arc<FramebufferInner>.                           *)
(***************************************************************************)
\* Arc::new(Inner::new(device, desc)): the driver object is created and the
\* first strong reference is the one the cache will hold.
ArcNew(objs, kind, key) ==
    Append(objs, [kind |-> kind, key |-> key, strong |-> 1,
                  handles |-> 0, destroyed |-> 0])

\* Arc::clone wrapped in a RenderPass / Framebuffer handle for the caller.
ArcClone(objs, o) ==
    [objs EXCEPT ![o].strong = @ + 1, ![o].handles = @ + 1]

\* Variant: every drop of a reference destroys the driver object.
ArcDrop_DestroyAlways(objs, o) ==
    [objs EXCEPT ![o].strong = @ - 1, ![o].destroyed = @ + 1]

\* Dropping one strong reference; the last one runs Drop for the inner
\* object, which destroys the driver object.
ArcDrop(objs, o) ==
    [objs EXCEPT ![o].strong = @ - 1,
                 ![o].destroyed = IF objs[o].strong = 1 THEN @ + 1 ELSE @]

\* The old values get_or_insert hands back are dropped.
RECURSIVE DropEvicted(_, _)
DropEvicted(objs, evicted) ==
    IF evicted = <<>> THEN objs
    ELSE DropEvicted(ArcDrop(objs, Head(evicted).val), Tail(evicted))

(***************************************************************************)
(* RenderPassCache::get_or_create / FramebufferCache::get_or_create.       *)
(***************************************************************************)
get_or_create(kind, key) ==
    LET newId == Len(objects) + 1
        r == LruGetOrInsert(cache, capacity, key, newId)
        created == IF r.hit THEN objects ELSE ArcNew(objects, kind, key)
        afterEvict == DropEvicted(created, r.evicted)
    IN  /\ cache' = r.cache
        /\ objects' = ArcClone(afterEvict, r.val)
        /\ callLog' = Append(callLog,
                [key |-> key, obj |-> r.val,
                 constructed |-> Len(created) > Len(objects),
                 evicted |-> [i \in 1..Len(r.evicted) |-> r.evicted[i].key]])
        /\ UNCHANGED <<cacheKind, capacity>>

RenderPassCache_get_or_create(desc) ==
    /\ cacheKind = "render_pass"
    /\ get_or_create("render_pass", RenderPassKey_from(desc))

FramebufferCache_get_or_create(desc) ==
    /\ cacheKind = "framebuffer"
    /\ get_or_create("framebuffer", FramebufferKey_from(desc))

\* A caller drops a RenderPass or Framebuffer handle it holds.
DropHandle(o) ==
    /\ o \in 1..Len(objects)
    /\ objects[o].handles > 0
    /\ objects' = [ArcDrop(objects, o) EXCEPT ![o].handles = @ - 1]
    /\ UNCHANGED <<cacheKind, capacity, cache, callLog>>

\* RenderPassCache::new(size, device) / FramebufferCache::new(size, device):
\* an empty cache of the given capacity.
CacheNew(kind, size) ==
    /\ cacheKind = kind
    /\ capacity = size
    /\ cache = <<>>
    /\ objects = <<>>
    /\ callLog = <<>>

(***************************************************************************)
(* Swapchain and frame protocol: backend.rs, swapchain.rs, sync.rs,        *)
(* Device::submit and the submission of hello's Renderer::draw_frame.      *)
(***************************************************************************)
\* Images Backend::new asks the swapchain for.
image_count == 3

\* VkResult codes of the calls modelled.
VkSuccess == {"SUCCESS", "SUBOPTIMAL_KHR"}
AcquireResults ==
    VkSuccess \cup {"ERROR_OUT_OF_DATE_KHR", "ERROR_DEVICE_LOST",
                    "ERROR_SURFACE_LOST_KHR"}
PresentResults == AcquireResults
WaitIdleResults == {"SUCCESS", "ERROR_DEVICE_LOST"}
SubmitResults == {"SUCCESS", "ERROR_DEVICE_LOST"}

\* One call as the driver sees it.
DriverCall(op, sc, index, waits, signals, result) ==
    [op |-> op, swapchain |-> sc, image_index |-> index,
     wait_semaphores |-> waits, signal_semaphores |-> signals,
     result |-> result]

NoFrame == <<>>

\* Variant: the images are described without the swapchain's format.
Swapchain_image_desc_NoFormat(desc) ==
    [format |-> "UNDEFINED",
     extent |-> [width |-> desc.extent.width, height |-> desc.extent.height,
                 depth |-> 1],
     image_type |-> "TYPE_2D",
     usage |-> {"COLOR_ATTACHMENT"}]

\* Swapchain::new: the ImageDesc each of the driver's images is wrapped
\* with, made of the swapchain's format and its extent with depth 1.
Swapchain_image_desc(desc) ==
    [format |-> desc.format,
     extent |-> [width |-> desc.extent.width, height |-> desc.extent.height,
                 depth |-> 1],
     image_type |-> "TYPE_2D",
     usage |-> {"COLOR_ATTACHMENT"}]

\* Swapchain::new: the driver's images wrapped as borrowed Images, each
\* with its position in the ring as index.
Swapchain_new(raw, desc) ==
    [raw |-> raw,
     images |-> [i \in 1..desc.image_count |->
                    [index |-> i - 1,
                     image |-> [swapchain |-> raw, position |-> i - 1,
                                desc |-> Swapchain_image_desc(desc)]]]]

\* Variant: a dropped semaphore is left to the driver.
Semaphore_drop_Leaking(sems, s) == sems

\* Drop for Semaphore: destroy_semaphore.
Semaphore_drop(sems, s) == [sems EXCEPT ![s].alive = FALSE]

DestroySemaphore(s) == DriverCall("destroy_semaphore", 0, 0, <<>>, <<s>>, "SUCCESS")

\* Variant: every acquisition failure is handed back as an error.
Swapchain_acquire_next_image_NoPanic(sc, result, index) ==
    IF result \in VkSuccess
    THEN [kind |-> "Ok", image |-> <<sc.images[index + 1]>>]
    ELSE [kind |-> "Err", image |-> <<>>]

\* Swapchain::acquire_next_image: success and suboptimal give a clone of
\* the ring entry at the driver's index, out-of-date gives an error, any
\* other failure panics.
Swapchain_acquire_next_image(sc, result, index) ==
    IF result \in VkSuccess
    THEN [kind |-> "Ok", image |-> <<sc.images[index + 1]>>]
    ELSE IF result = "ERROR_OUT_OF_DATE_KHR"
    THEN [kind |-> "Err", image |-> <<>>]
    ELSE [kind |-> "panic", image |-> <<>>]

\* Variant: a presentation failure of any kind is reported as out of date.
Swapchain_present_image_NoPanic(result) ==
    IF result \in VkSuccess THEN "Ok" ELSE "Err(Outdated)"

\* Swapchain::present_image, by the driver's result.
Swapchain_present_image(result) ==
    IF result \in VkSuccess THEN "Ok"
    ELSE IF result = "ERROR_OUT_OF_DATE_KHR" THEN "Err(Outdated)"
    ELSE "panic"

\* Backend::begin_frame.  createOk is the number of create_semaphore calls
\* that succeed (Semaphore::new panics on the first that fails), result and
\* index are the driver's answer to the acquisition.
Backend_begin_frame(createOk, result, index) ==
    LET image_available == Len(semaphores) + 1
        render_finished == Len(semaphores) + 2
        acquired == Swapchain_acquire_next_image(swapchain, result, index)
        acquire == DriverCall("acquire_next_image", swapchain.raw, index,
                              <<>>, <<image_available>>, result)
    IN  /\ ~terminated
        /\ frame = NoFrame
        /\ (result \notin VkSuccess \/ createOk < 2) => index = 0
        /\ createOk < 2 => result = "SUCCESS"
        /\ UNCHANGED <<swapchain, submitted>>
        /\ IF createOk < 2
           THEN \* the semaphore created before the failure is dropped
                /\ terminated' = TRUE
                /\ semaphores' = semaphores \o [i \in 1..createOk |-> [alive |-> FALSE]]
                /\ driverLog' = driverLog \o [i \in 1..createOk |-> DestroySemaphore(image_available)]
                /\ ret' = [fn |-> "begin_frame", frame |-> NoFrame,
                           driver |-> <<>>, value |-> "panic"]
                /\ frame' = frame
           ELSE CASE acquired.kind = "Ok" ->
                    /\ semaphores' = semaphores \o <<[alive |-> TRUE], [alive |-> TRUE]>>
                    /\ driverLog' = Append(driverLog, acquire)
                    /\ frame' = <<[image_available |-> image_available,
                                   render_finished |-> render_finished,
                                   swapchain_image |-> acquired.image[1]]>>
                    /\ ret' = [fn |-> "begin_frame", frame |-> NoFrame,
                               driver |-> <<acquire>>, value |-> "Ok"]
                    /\ terminated' = terminated
                [] acquired.kind = "Err" ->
                    \* both semaphores are dropped on return, last declared first
                    /\ semaphores' = Semaphore_drop(Semaphore_drop(
                            semaphores \o <<[alive |-> TRUE], [alive |-> TRUE]>>,
                            render_finished), image_available)
                    /\ driverLog' = driverLog \o <<acquire,
                                        DestroySemaphore(render_finished),
                                        DestroySemaphore(image_available)>>
                    /\ frame' = frame
                    /\ ret' = [fn |-> "begin_frame", frame |-> NoFrame,
                               driver |-> <<acquire>>,
                               value |-> "Err(OutdatedSwapchain)"]
                    /\ terminated' = terminated
                [] OTHER ->
                    /\ semaphores' = semaphores \o <<[alive |-> FALSE], [alive |-> FALSE]>>
                    /\ driverLog' = driverLog \o <<acquire,
                                        DestroySemaphore(render_finished),
                                        DestroySemaphore(image_available)>>
                    /\ frame' = frame
                    /\ ret' = [fn |-> "begin_frame", frame |-> NoFrame,
                               driver |-> <<acquire>>, value |-> "panic"]
                    /\ terminated' = TRUE

\* vk::SubmitInfo::builder() as Device::submit chains it.  The wait count
\* is a single field of the structure, written by wait_semaphores (length
\* of the semaphore list) and again by wait_dst_stage_mask (length of the
\* stage-mask list).
SubmitInfo_wait_semaphores(info, sems) ==
    [info EXCEPT !.p_wait_semaphores = sems, !.wait_semaphore_count = Len(sems)]

SubmitInfo_signal_semaphores(info, sems) ==
    [info EXCEPT !.p_signal_semaphores = sems, !.signal_semaphore_count = Len(sems)]

SubmitInfo_wait_dst_stage_mask(info, masks) ==
    [info EXCEPT !.p_wait_dst_stage_mask = masks, !.wait_semaphore_count = Len(masks)]

SubmitInfo_command_buffers(info, cbs) ==
    [info EXCEPT !.p_command_buffers = cbs, !.command_buffer_count = Len(cbs)]

SubmitInfo_default ==
    [p_command_buffers |-> <<>>, command_buffer_count |-> 0,
     p_wait_semaphores |-> <<>>, wait_semaphore_count |-> 0,
     p_signal_semaphores |-> <<>>, signal_semaphore_count |-> 0,
     p_wait_dst_stage_mask |-> <<>>]

\* Device::submit: the submission handed to queue_submit.
Device_submit_info(command_buffers, wait_semaphores, signal_semaphores) ==
    SubmitInfo_wait_dst_stage_mask(
        SubmitInfo_signal_semaphores(
            SubmitInfo_wait_semaphores(
                SubmitInfo_command_buffers(SubmitInfo_default, command_buffers),
                wait_semaphores),
            signal_semaphores),
        <<>>)

\* What the driver reads of a submission: count entries of each array.
QueueSubmit(info, result) ==
    DriverCall("queue_submit", 0, 0,
        SubSeq(info.p_wait_semaphores, 1, info.wait_semaphore_count),
        SubSeq(info.p_signal_semaphores, 1, info.signal_semaphore_count),
        result)

\* Device::submit(command_buffers, wait_semaphores, signal_semaphores, fence);
\* a failing queue_submit panics.
Device_submit(command_buffers, wait_semaphores, signal_semaphores, result) ==
    /\ driverLog' = Append(driverLog,
            QueueSubmit(Device_submit_info(command_buffers, wait_semaphores,
                                           signal_semaphores), result))
    /\ terminated' = (result # "SUCCESS")

\* Renderer::draw_frame between begin_frame and end_frame: the recorded
\* command buffer is submitted with no wait semaphore, signalling the
\* frame's render_finished.
Renderer_submit(result) ==
    /\ ~terminated
    /\ frame # NoFrame
    /\ ~submitted
    /\ Device_submit(<<"command_buffer">>, <<>>, <<frame[1].render_finished>>, result)
    /\ submitted' = TRUE
    /\ UNCHANGED <<semaphores, swapchain, frame, ret>>

\* Backend::end_frame(frame): present, then wait for the device to be idle;
\* the Frame is dropped on return, its semaphores in declaration order.
Backend_end_frame(presentResult, waitResult) ==
    LET f == frame[1]
        present == DriverCall("queue_present", swapchain.raw,
                              f.swapchain_image.index,
                              <<f.render_finished>>, <<>>, presentResult)
        wait_idle == DriverCall("device_wait_idle", 0, 0, <<>>, <<>>, waitResult)
        dropFrame == <<DestroySemaphore(f.image_available),
                       DestroySemaphore(f.render_finished)>>
        presented == Swapchain_present_image(presentResult)
    IN  /\ ~terminated
        /\ frame # NoFrame
        /\ presentResult \notin VkSuccess => waitResult = "SUCCESS"
        /\ frame' = NoFrame
        /\ submitted' = FALSE
        /\ semaphores' = Semaphore_drop(Semaphore_drop(semaphores, f.image_available),
                                        f.render_finished)
        /\ UNCHANGED swapchain
        /\ CASE presented = "Ok" /\ waitResult = "SUCCESS" ->
                /\ driverLog' = driverLog \o <<present, wait_idle>> \o dropFrame
                /\ ret' = [fn |-> "end_frame", frame |-> frame,
                           driver |-> <<present, wait_idle>>, value |-> "Ok"]
                /\ terminated' = terminated
             [] presented = "Ok" /\ waitResult # "SUCCESS" ->
                \* wait_idle().unwrap() panics
                /\ driverLog' = driverLog \o <<present, wait_idle>> \o dropFrame
                /\ ret' = [fn |-> "end_frame", frame |-> frame,
                           driver |-> <<present, wait_idle>>, value |-> "panic"]
                /\ terminated' = TRUE
             [] presented = "Err(Outdated)" ->
                /\ driverLog' = driverLog \o <<present>> \o dropFrame
                /\ ret' = [fn |-> "end_frame", frame |-> frame,
                           driver |-> <<present>>,
                           value |-> "Err(OutdatedSwapchain)"]
                /\ terminated' = terminated
             [] OTHER ->
                /\ driverLog' = driverLog \o <<present>> \o dropFrame
                /\ ret' = [fn |-> "end_frame", frame |-> frame,
                           driver |-> <<present>>, value |-> "panic"]
                /\ terminated' = TRUE

(***************************************************************************)
(* Descriptor sets: descriptor.rs, Device::update_descriptor_set.          *)
(***************************************************************************)
\* crate::DescriptorSetLayoutEntry for binding b.
DescriptorSetLayoutEntry(b) ==
    [binding |-> b,
     ty |-> IF b % 2 = 0 THEN "UNIFORM_BUFFER" ELSE "STORAGE_BUFFER",
     count |-> 1,
     stage_flags |-> "COMPUTE"]

\* DescriptorSetLayout::new: the layout bindings collected into the map
\* binding index -> vk::DescriptorSetLayoutBinding.
RECURSIVE CollectBindings(_, _)
CollectBindings(map, rest) ==
    IF rest = <<>> THEN map
    ELSE LET e == Head(rest)
             b == [binding |-> e.binding, descriptor_type |-> e.ty,
                   descriptor_count |-> e.count, stage_flags |-> e.stage_flags]
         IN  CollectBindings(
                [k \in (DOMAIN map) \cup {e.binding} |->
                    IF k = e.binding THEN b ELSE map[k]],
                Tail(rest))

DescriptorSetLayout_new(desc) == CollectBindings(<<>>, desc.entries)

\* The layout descriptors explored: the entries of any set of binding
\* indices, in ascending order.
RECURSIVE AscendingEntries(_)
AscendingEntries(S) ==
    IF S = {} THEN <<>>
    ELSE LET m == CHOOSE x \in S : \A y \in S : x <= y
         IN  <<DescriptorSetLayoutEntry(m)>> \o AscendingEntries(S \ {m})

LayoutDescs ==
    {[entries |-> AscendingEntries(S)] : S \in SUBSET (0..(NumBindings - 1))}

\* crate::Descriptor { binding, resource: Buffer { buffer, offset, range } }
Descriptors ==
    [binding : 0..(NumBindings - 1),
     resource : [buffer : {1}, offset : {0}, range : {"WHOLE_SIZE"}]]

EntryLists == UNION {[1..n -> Descriptors] : n \in 0..MaxEntries}

\* Vec<vk::DescriptorBufferInfo>: its items, its capacity and the number of
\* the allocation that holds them.  A push onto a full vector moves the
\* items to a new allocation (capacity 4 first, then doubled).
Vec_new == [items |-> <<>>, cap |-> 0, alloc |-> 0]

Vec_push(v, x) ==
    IF Len(v.items) = v.cap
    THEN [items |-> Append(v.items, x),
          cap |-> IF v.cap = 0 THEN 4 ELSE 2 * v.cap,
          alloc |-> v.alloc + 1]
    ELSE [v EXCEPT !.items = Append(@, x)]

\* Variant: an entry whose binding is absent from the layout is skipped.
RECURSIVE DescriptorSet_update_loop_SkipAbsent(_, _, _, _)
DescriptorSet_update_loop_SkipAbsent(bnd, rest, writes, buffer_writes) ==
    IF rest = <<>>
    THEN [panicked |-> FALSE, writes |-> writes, buffer_writes |-> buffer_writes]
    ELSE LET entry == Head(rest) IN
        IF entry.binding \notin DOMAIN bnd
        THEN DescriptorSet_update_loop_SkipAbsent(bnd, Tail(rest), writes, buffer_writes)
        ELSE LET index == Len(buffer_writes.items)
                 pushed == Vec_push(buffer_writes,
                                [buffer |-> entry.resource.buffer,
                                 offset |-> entry.resource.offset,
                                 range |-> entry.resource.range])
                 write == [dst_binding |-> entry.binding,
                           descriptor_type |-> bnd[entry.binding].descriptor_type,
                           descriptor_count |-> Len(pushed.items) - index,
                           p_buffer_info |-> [alloc |-> pushed.alloc, index |-> index]]
             IN  DescriptorSet_update_loop_SkipAbsent(bnd, Tail(rest),
                                                      Append(writes, write), pushed)

\* The loop of DescriptorSet::update over the entries: an entry whose
\* binding is absent from the set's bindings panics; otherwise its buffer
\* info is pushed and a write is built that points at the pushed element.
RECURSIVE DescriptorSet_update_loop(_, _, _, _)
DescriptorSet_update_loop(bnd, rest, writes, buffer_writes) ==
    IF rest = <<>>
    THEN [panicked |-> FALSE, writes |-> writes, buffer_writes |-> buffer_writes]
    ELSE LET entry == Head(rest) IN
        IF entry.binding \notin DOMAIN bnd
        THEN [panicked |-> TRUE, writes |-> writes, buffer_writes |-> buffer_writes]
        ELSE LET index == Len(buffer_writes.items)
                 pushed == Vec_push(buffer_writes,
                                [buffer |-> entry.resource.buffer,
                                 offset |-> entry.resource.offset,
                                 range |-> entry.resource.range])
                 write == [dst_binding |-> entry.binding,
                           descriptor_type |-> bnd[entry.binding].descriptor_type,
                           descriptor_count |-> Len(pushed.items) - index,
                           p_buffer_info |-> [alloc |-> pushed.alloc, index |-> index]]
             IN  DescriptorSet_update_loop(bnd, Tail(rest),
                                           Append(writes, write), pushed)

\* What a read of a freed allocation may give instead of a buffer info.
FreedMemory == [buffer |-> 0, offset |-> 0, range |-> "freed memory"]

\* What update_descriptor_sets can read through one write: the buffer infos
\* it points at, or, when the vector has moved since the write was built,
\* whatever the freed allocation holds by then.
ReadWrite(w, vec) ==
    LET infos == SubSeq(vec.items, w.p_buffer_info.index + 1,
                        w.p_buffer_info.index + w.descriptor_count)
        seen(i) == [dst_binding |-> w.dst_binding,
                    descriptor_type |-> w.descriptor_type,
                    buffer_info |-> i]
    IN  IF w.p_buffer_info.alloc = vec.alloc
        THEN {seen(infos)}
        ELSE {seen(infos), seen(<<FreedMemory>>)}

RECURSIVE ReadWrites(_, _)
ReadWrites(writes, vec) ==
    IF writes = <<>> THEN {<<>>}
    ELSE {<<r>> \o t : r \in ReadWrite(Head(writes), vec),
                       t \in ReadWrites(Tail(writes), vec)}

\* DescriptorSet::update(entries)
DescriptorSet_update(entries) ==
    LET r == DescriptorSet_update_loop(bindings, entries, <<>>, Vec_new) IN
    /\ ~terminated
    /\ updateCalls' = updateCalls + 1
    /\ UNCHANGED bindings
    /\ IF r.panicked
       THEN /\ terminated' = TRUE
            /\ lastUpdate' = [entries |-> entries, value |-> "panic: binding not found"]
            /\ UNCHANGED <<writeBatches, lastBatch>>
       ELSE /\ terminated' = terminated
            /\ lastUpdate' = [entries |-> entries, value |-> "Ok"]
            /\ writeBatches' = writeBatches + 1
            /\ lastBatch' \in ReadWrites(r.writes, r.buffer_writes)

\* Device::update_descriptor_set(set, entries) returns set.update(entries).
Device_update_descriptor_set(entries) == DescriptorSet_update(entries)

\* Device::create_descriptor_set(layout): the set shares the layout's
\* bindings; nothing has been written to it.
DescriptorSet_new(layoutBindings) ==
    /\ bindings = layoutBindings
    /\ updateCalls = 0
    /\ lastUpdate = [entries |-> <<>>, value |-> "none"]
    /\ writeBatches = 0
    /\ lastBatch = <<>>

(***************************************************************************)
(* Swapchain configuration and resize: backend.rs, Swapchain::new, Drop    *)
(* for Swapchain.                                                          *)
(***************************************************************************)
Extent2d(w, h) == [width |-> w, height |-> h]

\* u32::max and u32::min.
u32_max(a, b) == IF a >= b THEN a ELSE b
u32_min(a, b) == IF a <= b THEN a ELSE b

\* Variant: the request is not raised to the surface's minimum.
make_swapchain_extent_NoLowerClamp(surface_capabilities, width, height) ==
    IF surface_capabilities.current_extent.width # U32_MAX
    THEN surface_capabilities.current_extent
    ELSE Extent2d(u32_min(width, surface_capabilities.max_image_extent.width),
                  u32_min(height, surface_capabilities.max_image_extent.height))

\* Variant: the surface's current extent is never used.
make_swapchain_extent_IgnoreFixed(surface_capabilities, width, height) ==
    Extent2d(u32_min(u32_max(width, surface_capabilities.min_image_extent.width),
                     surface_capabilities.max_image_extent.width),
             u32_min(u32_max(height, surface_capabilities.min_image_extent.height),
                     surface_capabilities.max_image_extent.height))

\* make_swapchain_extent: the surface's current extent when its width is
\* not u32::MAX, else the request clamped per dimension, max first.
make_swapchain_extent(surface_capabilities, width, height) ==
    IF surface_capabilities.current_extent.width # U32_MAX
    THEN surface_capabilities.current_extent
    ELSE Extent2d(u32_min(u32_max(width, surface_capabilities.min_image_extent.width),
                          surface_capabilities.max_image_extent.width),
                  u32_min(u32_max(height, surface_capabilities.min_image_extent.height),
                          surface_capabilities.max_image_extent.height))

\* vk::SurfaceFormatKHR.
SurfaceFormat(format, color_space) == [format |-> format, color_space |-> color_space]

\* The format make_swapchain_desc looks for.
SrgbNonlinear == SurfaceFormat("B8G8R8A8_SRGB", "SRGB_NONLINEAR")

\* Iterator::find on a list: the first element of the set wanted, if any.
Iter_find(list, wanted) ==
    LET S == {i \in 1..Len(list) : list[i] \in wanted}
    IN  IF S = {} THEN None
        ELSE Some(list[CHOOSE i \in S : \A j \in S : i <= j])

\* make_swapchain_desc: the present modes tried, in order of preference.
preferred_present_modes(vsync) ==
    IF vsync THEN <<"FIFO_RELAXED", "FIFO">> ELSE <<"MAILBOX", "IMMEDIATE">>

\* Option::unwrap_or.
Option_unwrap_or(o, default) == IF o.some THEN o.value ELSE default

\* make_swapchain_desc: the number of images asked for, image_count
\* lowered to the surface's maximum when the surface has one.
make_swapchain_image_count(surface_capabilities) ==
    IF surface_capabilities.max_image_count > 0
    THEN u32_min(image_count, surface_capabilities.max_image_count)
    ELSE image_count

\* make_swapchain_desc finds a B8G8R8A8_SRGB / SRGB_NONLINEAR surface
\* format or panics.
make_swapchain_format(surface_formats) == Iter_find(surface_formats, {SrgbNonlinear})

\* make_swapchain_desc, for a surface that has the format looked for.
make_swapchain_desc(width, height, surface_capabilities, surface_formats, surface_present_modes, vsync) ==
    LET surface_format == make_swapchain_format(surface_formats).value
        present_mode ==
            Option_unwrap_or(
                Iter_find(preferred_present_modes(vsync), surface_present_modes),
                "FIFO")
    IN  [format |-> surface_format.format,
         color_space |-> surface_format.color_space,
         extent |-> make_swapchain_extent(surface_capabilities, width, height),
         present_mode |-> present_mode,
         image_count |-> make_swapchain_image_count(surface_capabilities)]

\* vk::SwapchainKHR::null() and a Backend that holds no swapchain yet.
NullSwapchain == 0
NoSwapchain == [raw |-> NullSwapchain, images |-> <<>>]

\* Variant: the driver is never told of the previous swapchain.
Swapchain_old_handle_AlwaysNull(old_swapchain) == NullSwapchain

\* Swapchain::new: the handle given to the driver as old_swapchain.
Swapchain_old_handle(old_swapchain) ==
    IF old_swapchain.some THEN old_swapchain.value.raw ELSE NullSwapchain

\* One create_swapchain / destroy_swapchain call as the driver sees it.
SwapchainCall(op, raw, old, result) ==
    [op |-> op, raw |-> raw, old_swapchain |-> old, result |-> result]

CreateSwapchainResults == {"SUCCESS", "ERROR_OUT_OF_DEVICE_MEMORY"}

\* Drop for Swapchain: destroy_swapchain.
Swapchain_drop(scs, raw) ==
    [scs EXCEPT ![raw].alive = FALSE, ![raw].destroyed = @ + 1]

\* Swapchain::new(device, surface, desc, old_swapchain) followed by the
\* store into Backend.swapchain, which drops the value stored before.  A
\* failed create_swapchain panics with the Backend unchanged.
Backend_set_swapchain(fn, width, height, desc, result) ==
    LET raw == Len(swapchains) + 1
        old == IF swapchain = NoSwapchain THEN None ELSE Some(swapchain)
        create == SwapchainCall("create_swapchain", raw,
                                Swapchain_old_handle(old), result)
        created == Append(swapchains, [alive |-> TRUE, destroyed |-> 0])
    IN  /\ swapchain_desc' = desc
        /\ IF result = "SUCCESS"
           THEN /\ swapchain' = Swapchain_new(raw, desc)
                /\ swapchains' = IF old.some
                                 THEN Swapchain_drop(created, swapchain.raw)
                                 ELSE created
                /\ swapchainLog' = swapchainLog \o <<create>> \o
                        (IF old.some
                         THEN <<SwapchainCall("destroy_swapchain", swapchain.raw,
                                              NullSwapchain, "SUCCESS")>>
                         ELSE <<>>)
                /\ lastResize' = [fn |-> fn, width |-> width, height |-> height,
                                  value |-> "Ok"]
                /\ terminated' = terminated
           ELSE /\ UNCHANGED <<swapchain, swapchains>>
                /\ swapchainLog' = swapchainLog \o <<create>>
                /\ lastResize' = [fn |-> fn, width |-> width, height |-> height,
                                  value |-> "panic"]
                /\ terminated' = TRUE

\* Backend::new, as far as the swapchain goes: the window's inner size is
\* the request, vsync is on, there is no previous swapchain.  A surface
\* without the format looked for panics before any swapchain is created.
Backend_new(width, height, result) ==
    /\ ~terminated
    /\ swapchain = NoSwapchain
    /\ IF make_swapchain_format(surface.formats).some
       THEN Backend_set_swapchain("new", width, height,
                make_swapchain_desc(width, height, surface, surface.formats,
                                    surface.present_modes, TRUE),
                result)
       ELSE /\ result = "SUCCESS"
            /\ terminated' = TRUE
            /\ lastResize' = [fn |-> "new", width |-> width, height |-> height,
                              value |-> "panic"]
            /\ UNCHANGED <<swapchain, swapchain_desc, swapchains, swapchainLog>>
    /\ UNCHANGED <<surface, semaphores, frame, submitted, driverLog, ret>>

\* Backend::resize_swapchain.
Backend_resize_swapchain(width, height, result) ==
    /\ ~terminated
    /\ swapchain # NoSwapchain
    /\ Backend_set_swapchain("resize_swapchain", width, height,
            [swapchain_desc EXCEPT
                !.extent = make_swapchain_extent(surface, width, height)],
            result)
    /\ UNCHANGED <<surface, semaphores, frame, submitted, driverLog, ret>>

\* Extents sampled: small ones and u32::MAX.
Extents == 0..MaxExtent
Requests == (0..(MaxExtent + 1)) \cup {U32_MAX}
CurrentExtents == {MaxExtent, U32_MAX}

\* Capabilities a surface can report: min <= max in each dimension.
\* What a surface answers to its three queries: its capabilities, with
\* its formats and its present modes beside them.
Surface(current, min, max, min_image_count, max_image_count, formats, present_modes) ==
    [current_extent |-> current,
     min_image_extent |-> min,
     max_image_extent |-> max,
     min_image_count |-> min_image_count,
     max_image_count |-> max_image_count,
     formats |-> formats,
     present_modes |-> present_modes]

\* Surfaces that differ in their extents only: two images at least, no
\* upper limit, the format looked for, FIFO.
SurfaceCapabilities ==
    { Surface(Extent2d(cw, ch), Extent2d(minw, minh), Extent2d(maxw, maxh),
              2, 0, <<SrgbNonlinear>>, {"FIFO"}) :
        cw \in CurrentExtents, ch \in CurrentExtents,
        minw \in Extents, minh \in Extents, maxw \in Extents, maxh \in Extents }

ValidSurfaceCapabilities ==
    { c \in SurfaceCapabilities :
        /\ c.min_image_extent.width <= c.max_image_extent.width
        /\ c.min_image_extent.height <= c.max_image_extent.height }

\* The swapchain side of a Backend as built for a surface without a fixed
\* extent and a window of MaxExtent x MaxExtent.
InitialSurface ==
    Surface(Extent2d(U32_MAX, U32_MAX), Extent2d(0, 0),
            Extent2d(MaxExtent, MaxExtent), 2, 0, <<SrgbNonlinear>>, {"FIFO"})

InitialSwapchainDesc ==
    make_swapchain_desc(MaxExtent, MaxExtent, InitialSurface,
                        InitialSurface.formats, InitialSurface.present_modes, TRUE)

InitSwapchain ==
    /\ surface = InitialSurface
    /\ swapchain_desc = InitialSwapchainDesc
    /\ swapchains = <<[alive |-> TRUE, destroyed |-> 0]>>
    /\ swapchainLog = <<SwapchainCall("create_swapchain", 1, NullSwapchain, "SUCCESS")>>
    /\ lastResize = [fn |-> "new", width |-> MaxExtent, height |-> MaxExtent,
                     value |-> "Ok"]

\* Backend::new, as far as frames go: a swapchain of image_count images and
\* no frame begun.
InitFrame ==
    /\ semaphores = <<>>
    /\ swapchain = Swapchain_new(1, InitialSwapchainDesc)
    /\ frame = NoFrame
    /\ submitted = FALSE
    /\ driverLog = <<>>
    /\ ret = [fn |-> "none", frame |-> NoFrame, driver |-> <<>>, value |-> "none"]

(***************************************************************************)
(* Buffers, images and image views: buffer.rs, image.rs,                   *)
(* Device::create_image_view.                                              *)
(***************************************************************************)
\* One call as the driver or the allocator sees it: the object it is about
\* (a raw buffer, image or view, or an allocation).
ResourceCall(op, object) == [op |-> op, object |-> object]

\* HashMap<ImageViewDesc, ImageView> as the set of its entries.
HashMap_new == {}
HashMap_get(m, k) == {e \in m : e.desc = k}
HashMap_insert(m, k, v) == {e \in m : e.desc # k} \cup {[desc |-> k, view |-> v]}

\* A Buffer or an Image: allocation is Some for what Buffer::new and
\* Image::new build, None for Image::from_raw; made counts the views the
\* driver made for it; lock is the thread holding the views mutex, 0 if
\* none; dropped tells that its Drop has run; log lists the calls made for
\* it, oldest first.
Resource(type, allocation, log) ==
    [type |-> type, allocation |-> allocation, views |-> HashMap_new,
     made |-> 0, alive |-> TRUE, raw_alive |-> TRUE, dropped |-> FALSE,
     lock |-> 0, log |-> log]

\* Allocator::allocate and Allocator::free.  free fails for an allocation
\* the allocator does not hold.
Allocator_allocate(allocs) == Append(allocs, [live |-> TRUE, frees |-> 0])
Allocator_can_free(allocs, a) == a \in 1..Len(allocs) /\ allocs[a].live
Allocator_free(allocs, a) ==
    [i \in 1..Len(allocs) |->
        IF i = a THEN [live |-> FALSE, frees |-> allocs[a].frees + 1] ELSE allocs[i]]

CreateResults == {"SUCCESS", "ERROR_OUT_OF_DEVICE_MEMORY"}

\* The calls of Buffer::new / Image::new up to the first that fails:
\* create, allocate, bind.
Resource_new_calls(type, raw, a, failAt) ==
    LET all == <<ResourceCall("create_" \o type, raw),
                 ResourceCall("allocate", a),
                 ResourceCall("bind_" \o type \o "_memory", raw)>>
    IN  IF failAt = 0 THEN all ELSE SubSeq(all, 1, failAt)

\* Buffer::new and Image::new.  failAt = 0: all calls succeed and the
\* resource is returned; failAt = k: the k-th call fails, the constructor
\* panics and no resource is returned (what was made so far leaks).
Resource_new(type, failAt) ==
    LET raw == Len(resources) + 1
        a == Len(allocations) + 1
        calls == Resource_new_calls(type, raw, a, failAt)
        built == Resource(type, Some(a), calls)
    IN  /\ ~terminated
        /\ IF failAt = 0
           THEN /\ resources' = Append(resources, built)
                /\ allocations' = Allocator_allocate(allocations)
                /\ terminated' = terminated
           ELSE /\ resources' = Append(resources,
                        [built EXCEPT !.alive = FALSE,
                                      !.raw_alive = (failAt > 1),
                                      !.allocation = IF failAt = 3 THEN Some(a) ELSE None])
                /\ allocations' = IF failAt = 3 THEN Allocator_allocate(allocations)
                                  ELSE allocations
                /\ terminated' = TRUE
        /\ UNCHANGED <<threads, viewLog>>

Buffer_new(failAt) == Resource_new("buffer", failAt)

Image_new(failAt) == Resource_new("image", failAt)

\* Image::from_raw: a wrapper around a raw image of the swapchain.
Image_from_raw ==
    /\ ~terminated
    /\ resources' = Append(resources, Resource("image", None, <<>>))
    /\ UNCHANGED <<terminated, allocations, threads, viewLog>>

\* The ways values() can enumerate a map: the sequences that list each
\* entry once.
Enumerations(m) ==
    { order \in [1..Cardinality(m) -> m] :
        \A i, j \in 1..Cardinality(m) : (order[i] = order[j]) => (i = j) }

\* Drop for Image, first part: destroy_image_view for each cached view.
Image_drop_views(img, order) ==
    [k \in 1..Len(order) |-> ResourceCall("destroy_image_view", order[k].view)]

\* Variant: the allocator's free is called whether or not the image owns
\* an allocation.
Resource_drop_owned_FreeAlways(res, raw) ==
    <<ResourceCall("free", IF res.allocation.some THEN res.allocation.value ELSE 0),
      ResourceCall("destroy_" \o res.type, raw)>>

\* Variant: the raw object is destroyed before its memory is freed.
Resource_drop_owned_DestroyFirst(res, raw) ==
    IF res.allocation.some
    THEN <<ResourceCall("destroy_" \o res.type, raw),
           ResourceCall("free", res.allocation.value)>>
    ELSE <<>>

\* Drop for Buffer, and the second part of Drop for Image: if the resource
\* owns an allocation, free it, then destroy the raw object.
Resource_drop_owned(res, raw) ==
    IF res.allocation.some
    THEN <<ResourceCall("free", res.allocation.value),
           ResourceCall("destroy_" \o res.type, raw)>>
    ELSE <<>>

\* The calls of Drop for Buffer / Drop for Image of resource r.
Resource_drop_calls(res, r, order) ==
    Image_drop_views(res, order) \o Resource_drop_owned(res, r)

\* The resources after the drop of resource r, which made these calls.
Resource_dropped(rs, r, calls) ==
    [i \in 1..Len(rs) |->
        IF i = r
        THEN [type |-> rs[r].type, allocation |-> None, views |-> HashMap_new,
              made |-> rs[r].made, alive |-> FALSE, dropped |-> TRUE,
              raw_alive |-> (rs[r].raw_alive /\ ~rs[r].allocation.some),
              lock |-> rs[r].lock, log |-> rs[r].log \o calls]
        ELSE rs[i]]

\* No thread is inside Image::view of resource r (a caller of view borrows
\* the Image, so the Image cannot be dropped meanwhile).
Unborrowed(r) == \A t \in DOMAIN threads : threads[t].pc = "idle" \/ threads[t].image # r

\* Drop for Buffer and Drop for an Image built by Image::new, run when the
\* last handle goes.  A free the allocator refuses panics.
Resource_drop(r) ==
    /\ ~terminated
    /\ r \in 1..Len(resources)
    /\ resources[r].alive
    /\ resources[r].allocation.some
    /\ Unborrowed(r)
    /\ \E order \in Enumerations(resources[r].views) :
        LET res == resources[r] IN
        IF Allocator_can_free(allocations, res.allocation.value)
        THEN /\ resources' = Resource_dropped(resources, r,
                                              Resource_drop_calls(res, r, order))
             /\ allocations' = Allocator_free(allocations, res.allocation.value)
             /\ terminated' = terminated
        ELSE /\ resources' = Resource_dropped(resources, r,
                    Image_drop_views(res, order) \o <<ResourceCall("free", 0)>>)
             /\ allocations' = allocations
             /\ terminated' = TRUE
    /\ UNCHANGED <<threads, viewLog>>

\* The borrowed images alive, in the order Swapchain.images holds them.
RECURSIVE BorrowedImages(_)
BorrowedImages(r) ==
    IF r > Len(resources) THEN <<>>
    ELSE (IF resources[r].alive /\ ~resources[r].allocation.some
          THEN <<r>> ELSE <<>>) \o BorrowedImages(r + 1)

\* destroy_swapchain destroys the raw images the driver made for the
\* swapchain.
Swapchain_destroy_raw_images(rs) ==
    [r \in 1..Len(rs) |->
        IF rs[r].alive /\ ~rs[r].allocation.some
        THEN [rs[r] EXCEPT !.raw_alive = FALSE,
                           !.log = Append(@, ResourceCall("destroy_swapchain", 0))]
        ELSE rs[r]]

\* Drop for Image of each borrowed image of the list in turn.
RECURSIVE Swapchain_drop_images(_, _)
Swapchain_drop_images(rs, rest) ==
    IF rest = <<>> THEN {rs}
    ELSE UNION { Swapchain_drop_images(
                    Resource_dropped(rs, rest[1],
                        Resource_drop_calls(rs[rest[1]], rest[1], order)),
                    Tail(rest)) :
                 order \in Enumerations(rs[rest[1]].views) }

\* The drop of the Swapchain: Drop for Swapchain destroys the swapchain,
\* and with it its raw images; then its fields are dropped, the images
\* among them.
Swapchain_drop_with_images ==
    LET borrowed == BorrowedImages(1) IN
    /\ ~terminated
    /\ borrowed # <<>>
    /\ \A k \in 1..Len(borrowed) : Unborrowed(borrowed[k])
    /\ resources' \in Swapchain_drop_images(Swapchain_destroy_raw_images(resources),
                                            borrowed)
    /\ UNCHANGED <<terminated, allocations, threads, viewLog>>

\* crate::ImageViewDesc: equality and hash are structural (derived).
ImageViewDescAt(i) ==
    [view_type |-> "TYPE_2D", aspect_mask |-> "COLOR", format |-> "B8G8R8A8_SRGB",
     base_mip_level |-> i - 1, level_count |-> 1]

ImageViewDescs == {ImageViewDescAt(i) : i \in 1..NumViewDescs}

\* The raw view the driver makes at the n-th create_image_view for an image.
ImageView(image, n) == [image |-> image, n |-> n]
NoView == ImageView(0, 0)

\* A create_image_view call: the view made (NoView if the call failed) and
\* the descriptor it was made from.
ImageViewCall(view, desc) ==
    [op |-> "create_image_view", object |-> view, desc |-> desc]

Idle == [pc |-> "idle", image |-> 0, desc |-> ImageViewDescAt(1), view |-> NoView]

\* Variant: the lock is handed out whether or not it is held.
Mutex_can_lock_Unguarded(holder) == TRUE

\* Mutex::lock returns once no other thread holds the mutex.
Mutex_can_lock(holder) == holder = 0

\* Image::view, `self.views.lock().unwrap()`: thread t enters view(desc) of
\* image r and takes the lock of its view map.
Image_view_lock(t, r, desc) ==
    /\ ~terminated
    /\ threads[t].pc = "idle"
    /\ r \in 1..Len(resources)
    /\ resources[r].type = "image"
    /\ resources[r].alive
    /\ Mutex_can_lock(resources[r].lock)
    /\ resources' = [resources EXCEPT ![r].lock = t]
    /\ threads' = [threads EXCEPT ![t] = [pc |-> "locked", image |-> r,
                                          desc |-> desc, view |-> NoView]]
    /\ UNCHANGED <<terminated, allocations, viewLog>>

\* Image::view, the lookup: the cached entry if there is one, else
\* ImageView::new, whose create_image_view panics on failure.
Image_view_get(t, result) ==
    LET r == threads[t].image
        desc == threads[t].desc
        found == HashMap_get(resources[r].views, desc)
        view == ImageView(r, resources[r].made + 1)
    IN  /\ ~terminated
        /\ threads[t].pc = "locked"
        /\ IF found # {}
           THEN /\ result = "SUCCESS"
                /\ threads' = [threads EXCEPT ![t].pc = "found",
                                  ![t].view = (CHOOSE e \in found : TRUE).view]
                /\ UNCHANGED <<terminated, resources>>
           ELSE IF result = "SUCCESS"
           THEN /\ resources' = [resources EXCEPT
                        ![r].made = @ + 1,
                        ![r].log = Append(@, ImageViewCall(view, desc))]
                /\ threads' = [threads EXCEPT ![t].pc = "created", ![t].view = view]
                /\ terminated' = terminated
           ELSE /\ resources' = [resources EXCEPT
                        ![r].log = Append(@, ImageViewCall(NoView, desc))]
                /\ terminated' = TRUE
                /\ UNCHANGED threads
        /\ UNCHANGED <<allocations, viewLog>>

\* Image::view, the end: a view just made is inserted, the lock is released
\* and the view is returned.
Image_view_return(t) ==
    LET r == threads[t].image
        desc == threads[t].desc
        view == threads[t].view
    IN  /\ ~terminated
        /\ threads[t].pc \in {"found", "created"}
        /\ resources' = [resources EXCEPT
                ![r].lock = 0,
                ![r].views = IF threads[t].pc = "created"
                             THEN HashMap_insert(@, desc, view) ELSE @]
        /\ viewLog' = viewLog \cup {[image |-> r, desc |-> desc, view |-> view]}
        /\ threads' = [threads EXCEPT ![t] = Idle]
        /\ UNCHANGED <<terminated, allocations>>

\* Device::create_image_view(image, desc) is Image::view(desc).
Device_create_image_view(t, r, desc) == Image_view_lock(t, r, desc)

\* No buffer, image or view exists.
InitResources ==
    /\ resources = <<>>
    /\ allocations = <<>>
    /\ threads = [t \in 1..NumThreads |-> Idle]
    /\ viewLog = {}

(***************************************************************************)
(* Command buffers and encoders: command.rs.                               *)
(***************************************************************************)
\* One call as the driver sees it: its arguments, and the encoder it was
\* recorded through (0 for a call of the CommandBuffer itself).
CommandWith(op, encoder, args) == [op |-> op, encoder |-> encoder, args |-> args]

Command(op, encoder) == CommandWith(op, encoder, <<>>)

\* GraphicsPipeline / ComputePipeline: each is created with a pipeline
\* layout of its own.
Pipeline(p) == [raw |-> p, pipeline_layout |-> p]

Pipelines == {Pipeline(p) : p \in 1..NumPipelines}

\* RenderPassEncoder / ComputePassEncoder: the n-th encoder opened on its
\* parent.
Encoder(kind, n) == [kind |-> kind, id |-> n, active_pipeline |-> None]

\* CommandBuffer::new: a command buffer of a pool made with
\* RESET_COMMAND_BUFFER, nothing recorded, no encoder.  state is the state
\* the driver keeps for it: "idle" (initial), "recording", "recorded"
\* (executable), or "undefined" after a call the driver does not allow in
\* the state it was made in; commands is its content; encoders lists the
\* encoders that hold `&mut CommandBuffer`, opened counts those ever opened;
\* log lists every driver call made on it.
CommandBuffer_new ==
    [state |-> "idle", encoders |-> <<>>, opened |-> 0, commands |-> <<>>, log |-> <<>>]

\* Variant: the exclusive borrow is granted whether or not an encoder holds
\* the CommandBuffer.
CommandBuffer_borrow_mut_Unchecked(cb) == TRUE

\* `&mut self` / `parent: &'a mut CommandBuffer`: an exclusive borrow of the
\* CommandBuffer is granted only while no encoder holds one.
CommandBuffer_borrow_mut(cb) == cb.encoders = <<>>

\* Driver calls made so far, over all command buffers.
RECURSIVE Recorded(_)
Recorded(c) ==
    IF c > Len(commandBuffers) THEN 0
    ELSE Len(commandBuffers[c].log) + Recorded(c + 1)

\* Encoders opened so far, over all command buffers.
RECURSIVE Opened(_)
Opened(c) ==
    IF c > Len(commandBuffers) THEN 0
    ELSE commandBuffers[c].opened + Opened(c + 1)

\* A sequence without its e-th element.
Without(seq, e) == SubSeq(seq, 1, e - 1) \o SubSeq(seq, e + 1, Len(seq))

\* Variant: beginning keeps what the command buffer held.
Driver_begin_command_buffer_NoReset(cb) ==
    [cb EXCEPT !.state = IF @ \in {"idle", "recorded"} THEN "recording" ELSE "undefined",
               !.log = Append(@, Command("begin_command_buffer", 0))]

\* begin_command_buffer in the driver: allowed on a command buffer that is
\* not being recorded; it resets the command buffer (its pool allows the
\* reset) and starts recording.
Driver_begin_command_buffer(cb) ==
    [cb EXCEPT !.state = IF @ \in {"idle", "recorded"} THEN "recording" ELSE "undefined",
               !.commands = <<>>,
               !.log = Append(@, Command("begin_command_buffer", 0))]

\* end_command_buffer in the driver: allowed on a command buffer that is
\* being recorded; it finishes the recording.
Driver_end_command_buffer(cb) ==
    [cb EXCEPT !.state = IF @ = "recording" THEN "recorded" ELSE "undefined",
               !.log = Append(@, Command("end_command_buffer", 0))]

\* A cmd_* call in the driver: allowed on a command buffer that is being
\* recorded; it appends the commands.
Driver_cmd(cb, cmds) ==
    [cb EXCEPT !.state = IF @ = "recording" \/ cmds = <<>> THEN @ ELSE "undefined",
               !.commands = @ \o cmds,
               !.log = @ \o cmds]

\* CommandBuffer::begin: begin_command_buffer(..).expect(..).
CommandBuffer_begin(c, result) ==
    /\ ~terminated
    /\ CommandBuffer_borrow_mut(commandBuffers[c])
    /\ IF result = "SUCCESS"
       THEN /\ commandBuffers' = [commandBuffers EXCEPT
                    ![c] = Driver_begin_command_buffer(@)]
            /\ terminated' = terminated
       ELSE /\ commandBuffers' = [commandBuffers EXCEPT
                    ![c].log = Append(@, Command("begin_command_buffer", 0))]
            /\ terminated' = TRUE

\* CommandBuffer::end: end_command_buffer(..).expect(..).
CommandBuffer_end(c, result) ==
    /\ ~terminated
    /\ CommandBuffer_borrow_mut(commandBuffers[c])
    /\ IF result = "SUCCESS"
       THEN /\ commandBuffers' = [commandBuffers EXCEPT
                    ![c] = Driver_end_command_buffer(@)]
            /\ terminated' = terminated
       ELSE /\ commandBuffers' = [commandBuffers EXCEPT
                    ![c].log = Append(@, Command("end_command_buffer", 0))]
            /\ terminated' = TRUE

\* crate::BufferBarrier and crate::ImageBarrier.
BufferBarrier(buffer, src_access_mask, dst_access_mask) ==
    [buffer |-> buffer, src_access_mask |-> src_access_mask,
     dst_access_mask |-> dst_access_mask]

ImageBarrier(image, src_access_mask, dst_access_mask, old_layout, new_layout, aspect_mask) ==
    [image |-> image, src_access_mask |-> src_access_mask,
     dst_access_mask |-> dst_access_mask, old_layout |-> old_layout,
     new_layout |-> new_layout, aspect_mask |-> aspect_mask]

\* vk::BufferMemoryBarrier built from a BufferBarrier: the whole buffer.
BufferMemoryBarrier(barrier) ==
    [buffer |-> barrier.buffer,
     src_access_mask |-> barrier.src_access_mask,
     dst_access_mask |-> barrier.dst_access_mask,
     offset |-> 0, size |-> "WHOLE_SIZE"]

\* vk::ImageMemoryBarrier built from an ImageBarrier: every mip level and
\* array layer of the aspect.
ImageMemoryBarrier(barrier) ==
    [image |-> barrier.image,
     src_access_mask |-> barrier.src_access_mask,
     dst_access_mask |-> barrier.dst_access_mask,
     old_layout |-> barrier.old_layout,
     new_layout |-> barrier.new_layout,
     subresource_range |->
        [aspect_mask |-> barrier.aspect_mask,
         base_mip_level |-> 0, level_count |-> "REMAINING_MIP_LEVELS",
         base_array_layer |-> 0, layer_count |-> "REMAINING_ARRAY_LAYERS"]]

\* Variant: the buffer barriers are collected newest first.
BufferMemoryBarriers_Reversed(buffer_barriers) ==
    [k \in 1..Len(buffer_barriers) |->
        BufferMemoryBarrier(buffer_barriers[Len(buffer_barriers) + 1 - k])]

\* `buffer_barriers.iter().map(..).collect::<Vec<_>>()`.
BufferMemoryBarriers(buffer_barriers) ==
    [k \in 1..Len(buffer_barriers) |-> BufferMemoryBarrier(buffer_barriers[k])]

\* `image_barriers.iter().map(..).collect::<Vec<_>>()`.
ImageMemoryBarriers(image_barriers) ==
    [k \in 1..Len(image_barriers) |-> ImageMemoryBarrier(image_barriers[k])]

\* CommandBuffer::transition: one cmd_pipeline_barrier with the stage masks,
\* no memory barriers, and the buffer and image barriers of the entries.
CommandBuffer_transition(c, buffer_barriers, image_barriers, src_stage_mask, dst_stage_mask) ==
    LET buffer_memory_barriers == BufferMemoryBarriers(buffer_barriers)
        image_memory_barriers == ImageMemoryBarriers(image_barriers)
    IN  /\ ~terminated
        /\ CommandBuffer_borrow_mut(commandBuffers[c])
        /\ commandBuffers' = [commandBuffers EXCEPT ![c] = Driver_cmd(@,
                <<CommandWith("cmd_pipeline_barrier", 0,
                    <<src_stage_mask, dst_stage_mask, <<>>,
                      buffer_memory_barriers, image_memory_barriers>>)>>)]
        /\ terminated' = terminated

\* RenderPassEncoder::begin: records cmd_begin_render_pass and holds the
\* parent.
RenderPassEncoder_begin(c) ==
    LET cb == commandBuffers[c]
        n == cb.opened + 1
        recorded == Driver_cmd(cb, <<Command("cmd_begin_render_pass", n)>>)
    IN  /\ commandBuffers' = [commandBuffers EXCEPT ![c] =
                [recorded EXCEPT !.encoders = Append(@, Encoder("render", n)),
                                 !.opened = n]]
        /\ terminated' = terminated

\* ComputePassEncoder::begin: records nothing and holds the parent.
ComputePassEncoder_begin(c) ==
    LET cb == commandBuffers[c]
        n == cb.opened + 1
    IN  /\ commandBuffers' = [commandBuffers EXCEPT ![c] =
                [cb EXCEPT !.encoders = Append(@, Encoder("compute", n)),
                           !.opened = n]]
        /\ terminated' = terminated

CommandBuffer_begin_render_pass(c) ==
    /\ ~terminated
    /\ CommandBuffer_borrow_mut(commandBuffers[c])
    /\ RenderPassEncoder_begin(c)

CommandBuffer_begin_compute_pass(c) ==
    /\ ~terminated
    /\ CommandBuffer_borrow_mut(commandBuffers[c])
    /\ ComputePassEncoder_begin(c)

\* Variant: the end of the pass is left to the caller.
RenderPassEncoder_drop_NoEnd(enc) == <<>>

\* Drop for RenderPassEncoder records cmd_end_render_pass;
\* ComputePassEncoder has no Drop.
RenderPassEncoder_drop(enc) ==
    IF enc.kind = "render" THEN <<Command("cmd_end_render_pass", enc.id)>> ELSE <<>>

\* The command buffer after its e-th open encoder is dropped.
Encoder_dropped(cb, e) ==
    [Driver_cmd(cb, RenderPassEncoder_drop(cb.encoders[e]))
        EXCEPT !.encoders = Without(cb.encoders, e)]

\* The e-th open encoder of command buffer c goes out of scope.
Encoder_drop(c, e) ==
    LET cb == commandBuffers[c] IN
    /\ ~terminated
    /\ e \in 1..Len(cb.encoders)
    /\ commandBuffers' = [commandBuffers EXCEPT ![c] = Encoder_dropped(cb, e)]
    /\ terminated' = terminated

\* An encoder method that takes self, records these commands and returns
\* self.
Encoder_record(c, e, kind, ops) ==
    LET cb == commandBuffers[c] IN
    /\ ~terminated
    /\ e \in 1..Len(cb.encoders)
    /\ cb.encoders[e].kind = kind
    /\ commandBuffers' = [commandBuffers EXCEPT ![c] = Driver_cmd(cb,
            [k \in 1..Len(ops) |-> Command(ops[k], cb.encoders[e].id)])]
    /\ terminated' = terminated

\* bind_pipeline: records cmd_bind_pipeline and remembers the pipeline.
Encoder_bind_pipeline(c, e, kind, pipeline) ==
    LET cb == commandBuffers[c] IN
    /\ ~terminated
    /\ e \in 1..Len(cb.encoders)
    /\ cb.encoders[e].kind = kind
    /\ commandBuffers' = [commandBuffers EXCEPT ![c] =
            [Driver_cmd(cb, <<CommandWith("cmd_bind_pipeline", cb.encoders[e].id,
                                          <<pipeline.raw>>)>>)
                EXCEPT !.encoders[e].active_pipeline = Some(pipeline)]]
    /\ terminated' = terminated

\* Variant: with no pipeline bound the call returns without recording.
Option_unwrap_OrSkip(cb, e, recorded) ==
    IF cb.encoders[e].active_pipeline.some THEN <<recorded, FALSE>> ELSE <<cb, FALSE>>

\* `self.active_pipeline.unwrap()` among the arguments of a cmd_* call:
\* with a pipeline bound the call is made; with none the unwrap panics
\* before the call, and the unwinding drops self.  The result is the command
\* buffer afterwards and whether the call panicked.
Option_unwrap(cb, e, recorded) ==
    IF cb.encoders[e].active_pipeline.some
    THEN <<recorded, FALSE>>
    ELSE <<Encoder_dropped(cb, e), TRUE>>

\* A method that passes `self.active_pipeline.unwrap().pipeline_layout` to
\* the command it records.
Encoder_record_with_pipeline(c, e, kind, op) ==
    LET cb == commandBuffers[c]
        active == cb.encoders[e].active_pipeline
        recorded == Driver_cmd(cb,
            <<CommandWith(op, cb.encoders[e].id,
                          <<IF active.some THEN active.value.pipeline_layout ELSE 0>>)>>)
        outcome == Option_unwrap(cb, e, recorded)
    IN  /\ ~terminated
        /\ e \in 1..Len(cb.encoders)
        /\ cb.encoders[e].kind = kind
        /\ commandBuffers' = [commandBuffers EXCEPT ![c] = outcome[1]]
        /\ terminated' = outcome[2]

RenderPassEncoder_bind_pipeline(c, e, pipeline) ==
    Encoder_bind_pipeline(c, e, "render", pipeline)

RenderPassEncoder_set_viewport(c, e) == Encoder_record(c, e, "render", <<"cmd_set_viewport">>)

RenderPassEncoder_set_scissor(c, e) == Encoder_record(c, e, "render", <<"cmd_set_scissor">>)

RenderPassEncoder_set_viewport_and_scissor(c, e) ==
    Encoder_record(c, e, "render", <<"cmd_set_viewport", "cmd_set_scissor">>)

RenderPassEncoder_bind_descriptor_set(c, e) ==
    Encoder_record_with_pipeline(c, e, "render", "cmd_bind_descriptor_sets")

RenderPassEncoder_push_constants(c, e) ==
    Encoder_record_with_pipeline(c, e, "render", "cmd_push_constants")

RenderPassEncoder_bind_index_buffer(c, e) ==
    Encoder_record(c, e, "render", <<"cmd_bind_index_buffer">>)

RenderPassEncoder_draw(c, e) == Encoder_record(c, e, "render", <<"cmd_draw">>)

RenderPassEncoder_draw_indexed(c, e) == Encoder_record(c, e, "render", <<"cmd_draw_indexed">>)

ComputePassEncoder_bind_pipeline(c, e, pipeline) ==
    Encoder_bind_pipeline(c, e, "compute", pipeline)

ComputePassEncoder_bind_descriptor_set(c, e) ==
    Encoder_record_with_pipeline(c, e, "compute", "cmd_bind_descriptor_sets")

ComputePassEncoder_push_constants(c, e) ==
    Encoder_record_with_pipeline(c, e, "compute", "cmd_push_constants")

ComputePassEncoder_dispatch(c, e) == Encoder_record(c, e, "compute", <<"cmd_dispatch">>)

\* A call of the API: the method, the command buffer it is made on and its
\* arguments.
CommandCall(fn, c, args) == [fn |-> fn, c |-> c, args |-> args]

\* The arguments of a transition call.
TransitionArgs(buffer_barriers, image_barriers, src_stage_mask, dst_stage_mask) ==
    [buffer_barriers |-> buffer_barriers, image_barriers |-> image_barriers,
     src_stage_mask |-> src_stage_mask, dst_stage_mask |-> dst_stage_mask]

\* The transitions the application asks for: none, two buffers and an
\* image, the two buffers the other way round.
TransitionInputs ==
    {TransitionArgs(<<>>, <<>>, "TOP_OF_PIPE", "BOTTOM_OF_PIPE"),
     TransitionArgs(<<BufferBarrier(1, "SHADER_WRITE", "SHADER_READ"),
                      BufferBarrier(2, "TRANSFER_WRITE", "HOST_READ")>>,
                    <<ImageBarrier(1, "NONE", "COLOR_ATTACHMENT_WRITE",
                                   "UNDEFINED", "COLOR_ATTACHMENT_OPTIMAL", "COLOR")>>,
                    "COMPUTE_SHADER", "FRAGMENT_SHADER"),
     TransitionArgs(<<BufferBarrier(2, "TRANSFER_WRITE", "HOST_READ"),
                      BufferBarrier(1, "SHADER_WRITE", "SHADER_READ")>>,
                    <<>>, "TRANSFER", "HOST")}

\* The command buffers the application made.
InitCommandBuffers ==
    /\ commandBuffers = [c \in 1..NumCommandBuffers |-> CommandBuffer_new]
    /\ commandCall = CommandCall("new", NumCommandBuffers, <<>>)

(***************************************************************************)
(* Memory requests: From<&BufferUsage> for MemoryLocation, and the         *)
(* AllocationCreateDesc of Buffer::new and Image::new.                     *)
(***************************************************************************)
\* a & b on u32 values.
RECURSIVE BitAnd(_, _)
BitAnd(a, b) ==
    IF a = 0 \/ b = 0 THEN 0
    ELSE (a % 2) * (b % 2) + 2 * BitAnd(a \div 2, b \div 2)

\* bitflags `contains`: every bit of other is set in flags.
BitFlags_contains(flags, other) == BitAnd(flags, other) = other

\* Variant: MAP_WRITE is looked at before MAP_READ.
MemoryLocation_from_WriteFirst(usage) ==
    IF BitFlags_contains(usage, MAP_WRITE) THEN "CpuToGpu"
    ELSE IF BitFlags_contains(usage, MAP_READ) THEN "GpuToCpu"
    ELSE "GpuOnly"

\* From<&crate::BufferUsage> for MemoryLocation.
MemoryLocation_from(usage) ==
    IF BitFlags_contains(usage, MAP_READ) THEN "GpuToCpu"
    ELSE IF BitFlags_contains(usage, MAP_WRITE) THEN "CpuToGpu"
    ELSE "GpuOnly"

AllocationCreateDesc(name, location, linear) ==
    [name |-> name, location |-> location, linear |-> linear]

\* The AllocationCreateDesc of Buffer::new.
Buffer_new_allocation_desc(desc) ==
    AllocationCreateDesc("buffer", MemoryLocation_from(desc.usage), TRUE)

\* The AllocationCreateDesc of Image::new.
Image_new_allocation_desc(desc) ==
    AllocationCreateDesc("image", "GpuOnly", FALSE)

\* The descriptors a buffer or an image can be created from: every usage.
BufferDescs == {[kind |-> "buffer", usage |-> u] : u \in 0..BufferUsage_all}

ImageDescs == {[kind |-> "image", usage |-> u] : u \in 0..ImageUsage_all}

\* Nothing has been requested of the allocator.
InitAllocation ==
    /\ allocationRequest = [kind |-> "buffer", usage |-> 0]
    /\ allocationDesc = None

(***************************************************************************)
(* Usage flags: From<&BufferUsage> for vk::BufferUsageFlags (buffer.rs),   *)
(* From<&ImageUsage> for vk::ImageUsageFlags (image.rs).  The driver's     *)
(* flags are kept as the set of their names.                               *)
(***************************************************************************)
\* The bits of crate::BufferUsage and crate::ImageUsage that declare a use.
BufferUsage ==
    [TRANSFER_SRC |-> 4, TRANSFER_DST |-> 8, UNIFORM |-> 16, STORAGE |-> 32,
     INDEX |-> 64, VERTEX |-> 128, INDIRECT |-> 256]

ImageUsage ==
    [TRANSFER_SRC |-> 1, TRANSFER_DST |-> 2, SAMPLED |-> 4, STORAGE |-> 8,
     COLOR_ATTACHMENT |-> 16, DEPTH_STENCIL_ATTACHMENT |-> 32]

\* From<&crate::BufferUsage> for vk::BufferUsageFlags: one chain of
\* if / else if, so the first usage found is the only one translated.
BufferUsageFlags_from(usage) ==
    IF BitFlags_contains(usage, BufferUsage.TRANSFER_SRC) THEN {"TRANSFER_SRC"}
    ELSE IF BitFlags_contains(usage, BufferUsage.TRANSFER_DST) THEN {"TRANSFER_DST"}
    ELSE IF BitFlags_contains(usage, BufferUsage.UNIFORM) THEN {"UNIFORM_BUFFER"}
    ELSE IF BitFlags_contains(usage, BufferUsage.STORAGE) THEN {"STORAGE_BUFFER"}
    ELSE IF BitFlags_contains(usage, BufferUsage.INDEX) THEN {"INDEX_BUFFER"}
    ELSE IF BitFlags_contains(usage, BufferUsage.VERTEX) THEN {"VERTEX_BUFFER"}
    ELSE {}

\* From<&crate::ImageUsage> for vk::ImageUsageFlags, of the same shape.
ImageUsageFlags_from(usage) ==
    IF BitFlags_contains(usage, ImageUsage.TRANSFER_SRC) THEN {"TRANSFER_SRC"}
    ELSE IF BitFlags_contains(usage, ImageUsage.TRANSFER_DST) THEN {"TRANSFER_DST"}
    ELSE IF BitFlags_contains(usage, ImageUsage.SAMPLED) THEN {"SAMPLED"}
    ELSE IF BitFlags_contains(usage, ImageUsage.STORAGE) THEN {"STORAGE"}
    ELSE IF BitFlags_contains(usage, ImageUsage.COLOR_ATTACHMENT)
    THEN {"COLOR_ATTACHMENT"}
    ELSE IF BitFlags_contains(usage, ImageUsage.DEPTH_STENCIL_ATTACHMENT)
    THEN {"DEPTH_STENCIL_ATTACHMENT"}
    ELSE {}

\* The vk::BufferCreateInfo of Buffer::new and the vk::ImageCreateInfo of
\* Image::new, as far as usage goes.
Buffer_new_create_info(desc) == [usage |-> BufferUsageFlags_from(desc.usage)]

Image_new_create_info(desc) == [usage |-> ImageUsageFlags_from(desc.usage)]

\* Nothing has been created.
InitUsage == createInfo = None

(***************************************************************************)
(* Lifetime of the device (device.rs 23-55).  Every object made from the   *)
(* device keeps an Arc<DeviceInner> in its `device` field; its Drop        *)
(* destroys the driver object and the field is released after the body.   *)
(* DeviceInner is dropped when the last of these references goes.          *)
(***************************************************************************)
MaxHolders == 2

NumSwapchainImages == 1

\* The structs { raw, device: Arc<DeviceInner> } whose Drop destroys raw.
DeviceObjects ==
    {"Buffer", "Image", "DescriptorSetLayout", "DescriptorSet",
     "GraphicsPipeline", "ComputePipeline", "CommandBuffer", "Fence",
     "Semaphore"}

\* RenderPassInner and FramebufferInner: an Arc held by the cache of the
\* Device and by every RenderPass / Framebuffer handle given out.
CachedObjects == {"RenderPass", "Framebuffer"}

\* An object of the device: `handle` is the reference the application holds,
\* `shared` the one a cache or the swapchain holds.
Holder(kind, handle, shared) ==
    [kind |-> kind, handle |-> handle, shared |-> shared, destroyed |-> FALSE]

World(h, b, d) == [holders |-> h, backend |-> b, deviceInner |-> d]

\* The driver objects of the device that still exist.
Live(w) ==
    Cardinality({i \in DOMAIN w.holders : ~w.holders[i].destroyed})
        + (IF w.backend.swapchain THEN 1 ELSE 0)

DeviceCall(w, op, by) == [op |-> op, live |-> Live(w), by |-> by]

DeviceInner_drop_DestroyFirst(w, by, result) ==
    [w EXCEPT !.deviceInner =
        IF result = "SUCCESS"
        THEN [@ EXCEPT !.allocator = FALSE, !.raw = FALSE,
                       !.log = @ \o <<DeviceCall(w, "device_wait_idle", by),
                                      DeviceCall(w, "destroy_device", by),
                                      DeviceCall(w, "drop_allocator", by)>>]
        ELSE [@ EXCEPT !.allocator = FALSE, !.panicked = TRUE,
                       !.log = @ \o <<DeviceCall(w, "device_wait_idle", by),
                                      DeviceCall(w, "drop_allocator", by)>>]]

\* Drop for DeviceInner.  device_wait_idle().unwrap() panics when the wait
\* fails: destroy_device is not reached, and unwinding drops the fields, the
\* allocator among them.
DeviceInner_drop(w, by, result) ==
    [w EXCEPT !.deviceInner =
        IF result = "SUCCESS"
        THEN [@ EXCEPT !.allocator = FALSE, !.raw = FALSE,
                       !.log = @ \o <<DeviceCall(w, "device_wait_idle", by),
                                      DeviceCall(w, "drop_allocator", by),
                                      DeviceCall(w, "destroy_device", by)>>]
        ELSE [@ EXCEPT !.allocator = FALSE, !.panicked = TRUE,
                       !.log = @ \o <<DeviceCall(w, "device_wait_idle", by),
                                      DeviceCall(w, "drop_allocator", by)>>]]

\* Arc<Instance> going out of scope: the last one drops the Instance, whose
\* Drop destroys the driver instance.
Arc_drop_Instance(w) ==
    LET released == [w EXCEPT !.backend.instance = @ - 1]
    IN  IF released.backend.instance = 0
        THEN [released EXCEPT !.backend.destroyed = Append(@, "instance")]
        ELSE released

\* DeviceInner going away: the body of its Drop, then its fields, of which
\* `instance` is the Arc<Instance> the device was created with.  The fields
\* are dropped by unwinding when the body panics.
DeviceInner_drop_in_place(w, by, result) ==
    LET body == DeviceInner_drop(w, by, result)
        device == IF body.deviceInner.raw THEN body
                  ELSE [body EXCEPT !.backend.destroyed = Append(@, "device")]
    IN  Arc_drop_Instance(device)

\* Variant: the Backend owns the device and destroys it with itself.
Arc_drop_DeviceInner_Owned(w, by, result) ==
    LET released == [w EXCEPT !.deviceInner.strong = @ - 1]
    IN  IF /\ released.deviceInner.log = <<>>
           /\ (released.deviceInner.strong = 0 \/ by = "Backend")
        THEN DeviceInner_drop_in_place(released, by, result)
        ELSE released

\* Arc<DeviceInner> going out of scope: the last one drops DeviceInner.
Arc_drop_DeviceInner(w, by, result) ==
    LET released == [w EXCEPT !.deviceInner.strong = @ - 1]
    IN  IF released.deviceInner.strong = 0
        THEN DeviceInner_drop_in_place(released, by, result)
        ELSE released

\* Drop of an object of the device: the body destroys the driver object, then
\* the `device` field is released.
Holder_drop(w, i, by, result) ==
    Arc_drop_DeviceInner([w EXCEPT !.holders[i].destroyed = TRUE], by, result)

\* One of the references to object i going out of scope.
Arc_drop_holder(w, i, ref, by, result) ==
    LET released == [w EXCEPT !.holders[i][ref] = FALSE]
    IN  IF ~released.holders[i].handle /\ ~released.holders[i].shared
        THEN Holder_drop(released, i, by, result)
        ELSE released

\* Drop of a container of shared references (Swapchain.images, the LruCache of
\* a cache): its elements of the given kind are released, first to last.
RECURSIVE Container_drop(_, _, _, _, _)
Container_drop(w, kind, i, by, result) ==
    IF i > Len(w.holders) THEN w
    ELSE Container_drop(
            IF w.holders[i].kind = kind /\ w.holders[i].shared
            THEN Arc_drop_holder(w, i, "shared", by, result)
            ELSE w,
            kind, i + 1, by, result)

\* RenderPassCache / FramebufferCache { cache, device }, fields in order.
Cache_drop(w, kind, result) ==
    Arc_drop_DeviceInner(Container_drop(w, kind, 1, "Backend", result),
                         "Backend", result)

\* Device { inner, render_pass_cache, framebuffer_cache }, fields in order.
Device_drop(w, result) ==
    Cache_drop(Cache_drop(Arc_drop_DeviceInner(w, "Backend", result),
                          "RenderPass", result),
               "Framebuffer", result)

\* Backend { swapchain_desc, swapchain, instance, device, surface }, fields
\* in order: Drop for Swapchain destroys the driver swapchain, then its
\* images are released; the Arc<Instance> of the Backend is released; the
\* Backend holds the only Arc<Device>; Drop for Surface destroys the driver
\* surface.
Backend_drop(w, result) ==
    LET destroyed == [w EXCEPT !.backend.swapchain = FALSE,
                               !.backend.destroyed = Append(@, "swapchain")]
        images == Container_drop(destroyed, "SwapchainImage", 1, "Backend", result)
        released == Device_drop(Arc_drop_Instance(images), result)
        dropped == [released EXCEPT !.backend.surface = FALSE,
                                  !.backend.destroyed = Append(@, "surface")]
    IN  [dropped EXCEPT !.backend.alive = FALSE]

\* Device::create_*: the new object clones the Arc<DeviceInner>; a render pass
\* or framebuffer is also kept by its cache.
Device_create(w, kind) ==
    [w EXCEPT !.holders = Append(@, Holder(kind, TRUE, kind \in CachedObjects)),
              !.deviceInner.strong = @ + 1]

\* After Backend::new: the swapchain holds its images, the Device holds
\* `inner` and each of its two caches holds a reference of its own; the
\* Backend and DeviceInner each hold an Arc<Instance>.
InitLifetime ==
    /\ holders = [i \in 1..NumSwapchainImages |->
                    Holder("SwapchainImage", FALSE, TRUE)]
    /\ backend = [alive |-> TRUE, swapchain |-> TRUE, surface |-> TRUE,
                  instance |-> 2, destroyed |-> <<>>]
    /\ deviceInner = [strong |-> 3 + NumSwapchainImages, allocator |-> TRUE,
                      raw |-> TRUE, panicked |-> FALSE, log |-> <<>>]

(***************************************************************************)
(* Descriptor pools (descriptor.rs): DescriptorSetLayout::new counts the   *)
(* descriptors of each type, DescriptorSet::new makes a pool of its own    *)
(* for every set, Drop for DescriptorSet destroys that pool.               *)
(***************************************************************************)
MaxCount == 2

MaxSets == 2

DescriptorTypes == {"UNIFORM_BUFFER", "STORAGE_BUFFER"}

\* The layout descriptors explored: any types and counts for the bindings
\* 0, 1, ...
PoolLayoutDescs ==
    {[entries |-> [i \in DOMAIN f |->
                    [binding |-> i - 1, ty |-> f[i].ty, count |-> f[i].count,
                     stage_flags |-> "COMPUTE"]]] :
        f \in UNION {[1..m -> [ty : DescriptorTypes, count : 0..MaxCount]] :
                        m \in 0..MaxEntries}}

\* Variant: a later entry of a type replaces the count of the earlier ones.
RECURSIVE DescriptorSetLayout_type_count_Overwrite(_, _)
DescriptorSetLayout_type_count_Overwrite(type_count, rest) ==
    IF rest = <<>> THEN type_count
    ELSE LET entry == Head(rest) IN
        DescriptorSetLayout_type_count_Overwrite(
            [ty \in (DOMAIN type_count) \cup {entry.ty} |->
                IF ty = entry.ty THEN entry.count ELSE type_count[ty]],
            Tail(rest))

\* DescriptorSetLayout::new, the loop over desc.entries:
\* type_count.entry(ty).and_modify(|c| *c += count).or_insert(count).
RECURSIVE DescriptorSetLayout_type_count(_, _)
DescriptorSetLayout_type_count(type_count, rest) ==
    IF rest = <<>> THEN type_count
    ELSE LET entry == Head(rest) IN
        DescriptorSetLayout_type_count(
            [ty \in (DOMAIN type_count) \cup {entry.ty} |->
                IF ty = entry.ty
                THEN IF ty \in DOMAIN type_count
                     THEN type_count[ty] + entry.count
                     ELSE entry.count
                ELSE type_count[ty]],
            Tail(rest))

\* DescriptorSetLayout { raw, type_count, bindings, .. }
DescriptorSetLayout(desc) ==
    [raw |-> 1,
     entries |-> desc.entries,
     type_count |-> DescriptorSetLayout_type_count(<<>>, desc.entries),
     bindings |-> DescriptorSetLayout_new(desc)]

\* vk::DescriptorPoolCreateInfo built by DescriptorSet::new.
DescriptorPoolCreateInfo(layout) ==
    [pool_sizes |-> {[ty |-> ty, descriptor_count |-> layout.type_count[ty]] :
                        ty \in DOMAIN layout.type_count},
     max_sets |-> 1,
     flags |-> {}]

\* The driver's create_descriptor_pool, allocate_descriptor_sets and
\* destroy_descriptor_pool.
Driver_create_descriptor_pool(pools, create_info) ==
    Append(pools, [create_info |-> create_info, sets |-> <<>>, destroyed |-> 0])

Driver_allocate_descriptor_sets(pools, pool, set_layouts) ==
    [pools EXCEPT ![pool].sets = @ \o set_layouts]

Driver_destroy_descriptor_pool(pools, pool) ==
    [pools EXCEPT ![pool].destroyed = @ + 1]

\* DescriptorSet::new(device, layout): both driver calls are followed by
\* .expect(), so a failure of either ends the program; a failure of the
\* allocation leaves the pool behind.
DescriptorSet_new_pool(layout, poolResult, allocResult) ==
    LET pool == Len(descriptorPools) + 1
        created == Driver_create_descriptor_pool(descriptorPools,
                        DescriptorPoolCreateInfo(layout))
    IN  /\ ~terminated
        /\ UNCHANGED setLayout
        /\ IF poolResult # "SUCCESS"
           THEN /\ terminated' = TRUE
                /\ UNCHANGED <<descriptorSets, descriptorPools>>
           ELSE IF allocResult # "SUCCESS"
           THEN /\ terminated' = TRUE
                /\ descriptorPools' = created
                /\ UNCHANGED descriptorSets
           ELSE /\ terminated' = terminated
                /\ descriptorPools' =
                    Driver_allocate_descriptor_sets(created, pool, <<layout.raw>>)
                /\ descriptorSets' = Append(descriptorSets,
                        [raw |-> Len(descriptorSets) + 1, pool |-> pool,
                         bindings |-> layout.bindings, alive |-> TRUE])

\* Device::create_descriptor_set(layout)
Device_create_descriptor_set(layout, poolResult, allocResult) ==
    DescriptorSet_new_pool(layout, poolResult, allocResult)

\* Drop for DescriptorSet
DescriptorSet_drop(s) ==
    /\ ~terminated
    /\ descriptorSets[s].alive
    /\ descriptorSets' = [descriptorSets EXCEPT ![s].alive = FALSE]
    /\ descriptorPools' =
        Driver_destroy_descriptor_pool(descriptorPools, descriptorSets[s].pool)
    /\ UNCHANGED <<setLayout, terminated>>

InitPools ==
    /\ setLayout = DescriptorSetLayout([entries |-> <<>>])
    /\ descriptorSets = <<>>
    /\ descriptorPools = <<>>

(***************************************************************************)
(* get_or_create called from several threads (render_pass.rs 51-65,        *)
(* framebuffer.rs 56-70): the key is built from the descriptor, then       *)
(* `self.cache.lock().unwrap().get_or_insert(key, || Arc::new(..)).clone()`*)
(* runs with the guard of the cache's mutex alive to the end of the        *)
(* expression.                                                             *)
(***************************************************************************)
MaxThreadCalls == 2

Caller(pc, key) == [pc |-> pc, key |-> key, entered |-> 0, hit |-> FALSE]

IdleCaller == Caller("idle", <<>>)

\* Variant: the cache is reached without taking its mutex.
Cache_can_lock_Unlocked(holder) == TRUE

\* self.cache.lock(): granted when no thread holds the mutex.
Cache_can_lock(holder) == Mutex_can_lock(holder)

\* get_or_create, up to the lock: thread t builds the key of its descriptor.
Cache_enter(t, key) ==
    /\ callers[t].pc = "idle"
    /\ callers' = [callers EXCEPT ![t] =
            [pc |-> "lock", key |-> key, entered |-> Len(callLog), hit |-> FALSE]]
    /\ UNCHANGED <<cacheLock, cacheVars>>

\* self.cache.lock().unwrap()
Cache_lock(t) ==
    /\ callers[t].pc = "lock"
    /\ Cache_can_lock(cacheLock)
    /\ cacheLock' = t
    /\ callers' = [callers EXCEPT ![t].pc = "lookup"]
    /\ UNCHANGED cacheVars

\* get_or_insert, the lookup of the key.
Cache_lookup(t) ==
    /\ callers[t].pc = "lookup"
    /\ callers' = [callers EXCEPT ![t].pc = "insert",
                                  ![t].hit = LruContains(cache, callers[t].key)]
    /\ UNCHANGED <<cacheLock, cacheVars>>

\* get_or_insert after the lookup, and the clone of what it returns: on a hit
\* the entry is moved to the head; on a miss the closure constructs the driver
\* object and the new entry goes to the head, the least recently used entry
\* leaving a full cache.  The guard is dropped at the end of the expression.
Cache_insert(t) ==
    LET key == callers[t].key
        newId == Len(objects) + 1
        created == IF callers[t].hit THEN objects
                   ELSE ArcNew(objects, cacheKind, key)
        r == LruGetOrInsert(cache, capacity, key, newId)
        unused == IF ~callers[t].hit /\ r.hit
                  THEN ArcDrop(created, newId) ELSE created
        afterEvict == DropEvicted(unused, r.evicted)
    IN  /\ callers[t].pc = "insert"
        /\ cache' = r.cache
        /\ objects' = ArcClone(afterEvict, r.val)
        /\ callLog' = Append(callLog,
                [key |-> key, obj |-> r.val,
                 constructed |-> Len(created) > Len(objects),
                 evicted |-> [i \in 1..Len(r.evicted) |-> r.evicted[i].key],
                 thread |-> t, entered |-> callers[t].entered])
        /\ callers' = [callers EXCEPT ![t] = IdleCaller]
        /\ cacheLock' = IF cacheLock = t THEN 0 ELSE cacheLock
        /\ UNCHANGED <<cacheKind, capacity>>

InitCallers ==
    /\ callers = [t \in 1..NumThreads |-> IdleCaller]
    /\ cacheLock = 0

(***************************************************************************)
(* Queue operations of the Device (device.rs 304-377): submit, wait,       *)
(* wait_idle, reset_fence.                                                 *)
(***************************************************************************)
NumFences == 1

NumSemaphores == 2

NullFence == 0

FenceResults == {"SUCCESS", "TIMEOUT", "ERROR_DEVICE_LOST"}

\* fence.map(|fence| fence.raw).unwrap_or(vk::Fence::null())
Device_submit_fence(fence) == IF fence.some THEN fence.value.raw ELSE NullFence

\* What the queue reads of one vk::SubmitInfo: count elements of each array.
SubmissionRead(info) ==
    [command_buffers |-> SubSeq(info.p_command_buffers, 1, info.command_buffer_count),
     wait_semaphores |-> SubSeq(info.p_wait_semaphores, 1, info.wait_semaphore_count),
     wait_dst_stage_mask |-> SubSeq(info.p_wait_dst_stage_mask, 1, info.wait_semaphore_count),
     signal_semaphores |-> SubSeq(info.p_signal_semaphores, 1, info.signal_semaphore_count)]

QueueCall(fn, args, driver, value) ==
    [fn |-> fn, args |-> args, driver |-> driver, value |-> value]

\* Device::submit(command_buffers, wait_semaphores, signal_semaphores, fence):
\* one vk::SubmitInfo goes to queue_submit on the universal queue with the
\* fence or a null fence; .expect() panics when the driver fails.
Device_submit_queue(command_buffers, wait_semaphores, signal_semaphores, fence, result) ==
    QueueCall("submit",
        [command_buffers |-> command_buffers, wait_semaphores |-> wait_semaphores,
         signal_semaphores |-> signal_semaphores, fence |-> fence],
        [op |-> "queue_submit", queue |-> "universal_queue",
         submits |-> <<SubmissionRead(
            Device_submit_info(command_buffers, wait_semaphores, signal_semaphores))>>,
         fence |-> Device_submit_fence(fence), result |-> result],
        IF result = "SUCCESS" THEN "Ok" ELSE "panic")

\* Device::wait(fence): wait_for_fences(&[fence.raw], true, u64::MAX)
\* followed by .expect().
Device_wait(fence, result) ==
    QueueCall("wait", [fence |-> fence],
        [op |-> "wait_for_fences", fences |-> <<fence.raw>>, wait_all |-> TRUE,
         timeout |-> "u64::MAX", result |-> result],
        IF result = "SUCCESS" THEN "Ok" ELSE "panic")

\* Device::wait_idle(): device_wait_idle()? hands the driver's error back.
Device_wait_idle(result) ==
    QueueCall("wait_idle", <<>>,
        [op |-> "device_wait_idle", result |-> result],
        IF result = "SUCCESS" THEN "Ok" ELSE "Err")

\* Device::reset_fence(fence): reset_fences(&[fence.raw]) followed by
\* .expect().
Device_reset_fence(fence, result) ==
    QueueCall("reset_fence", [fence |-> fence],
        [op |-> "reset_fences", fences |-> <<fence.raw>>, result |-> result],
        IF result = "SUCCESS" THEN "Ok" ELSE "panic")

\* A call of the Device returns or panics.
Device_called(call) ==
    /\ ~terminated
    /\ deviceCall' = call
    /\ terminated' = (call.value = "panic")

InitQueue ==
    deviceCall = QueueCall("none", <<>>, [op |-> "none", result |-> "SUCCESS"], "none")

(***************************************************************************)
(* The two caches of one Device together (device.rs 32-37, 266-282): a     *)
(* framebuffer is created against a render pass the caller holds and an    *)
(* image view; FramebufferInner { raw, device } keeps neither.             *)
(***************************************************************************)
MaxPassCalls == 3

\* Largest image count a sampled surface reports as its minimum or maximum.
MaxImageCount == 4

\* The raw image view handles explored, and how many views in turn may have
\* one of them.
ImageViewHandles == {1}

ViewGenerations == {1, 2}

\* The capacities explored: the smallest, and the one Device::new passes.
PassCacheSizes == {1, RENDER_PASS_CACHE_SIZE}

\* The objects constructed and the order of the destructions so far.
PassState(objs, order) == [objs |-> objs, order |-> order]

\* One strong reference to object o is dropped; the last one destroys it.
Pass_drop(p, o) ==
    LET after == ArcDrop(p.objs, o)
    IN  PassState(after,
                  IF after[o].destroyed > p.objs[o].destroyed
                  THEN Append(p.order, o) ELSE p.order)

\* The entries of a cache, or the values get_or_insert hands back, dropped
\* first to last.
RECURSIVE Pass_drop_entries(_, _)
Pass_drop_entries(p, entries) ==
    IF entries = <<>> THEN p
    ELSE Pass_drop_entries(Pass_drop(p, Head(entries).val), Tail(entries))

\* get_or_create of either cache of the Device.
Pass_get_or_create(c, kind, key) ==
    LET newId == Len(passObjects) + 1
        r == LruGetOrInsert(c, passDevice.capacity, key, newId)
        created == IF r.hit THEN passObjects ELSE ArcNew(passObjects, kind, key)
        afterEvict == Pass_drop_entries(PassState(created, passOrder), r.evicted)
    IN  [cache |-> r.cache,
         objs |-> ArcClone(afterEvict.objs, r.val),
         order |-> afterEvict.order,
         obj |-> r.val,
         constructed |-> ~r.hit]

PassCall(fn, key, g) ==
    [fn |-> fn, key |-> key, obj |-> g.obj, constructed |-> g.constructed,
     n |-> passCall.n + 1]

NoAttachment == [view |-> 0, generation |-> 0]

\* Device::create_render_pass(desc)
Device_create_render_pass(desc) ==
    LET key == RenderPassKey_from(desc)
        g == Pass_get_or_create(renderPassCache, "render_pass", key)
    IN  /\ passDevice.alive
        /\ renderPassCache' = g.cache
        /\ passObjects' = g.objs
        /\ passOrder' = g.order
        /\ attachmentOf' = IF g.constructed THEN Append(attachmentOf, NoAttachment)
                           ELSE attachmentOf
        /\ passCall' = PassCall("create_render_pass", key, g)
        /\ UNCHANGED <<passDevice, framebufferCache, imageViews>>

\* Device::create_framebuffer(desc): the key holds the raw handles of the
\* render pass and of the attachment views.
Device_create_framebuffer(desc) ==
    LET key == FramebufferKey_from(desc)
        g == Pass_get_or_create(framebufferCache, "framebuffer", key)
        view == desc.attachments[1].image_view.raw
    IN  /\ passDevice.alive
        /\ framebufferCache' = g.cache
        /\ passObjects' = g.objs
        /\ passOrder' = g.order
        /\ attachmentOf' =
            IF g.constructed
            THEN Append(attachmentOf,
                        [view |-> view, generation |-> imageViews[view].created])
            ELSE attachmentOf
        /\ passCall' = PassCall("create_framebuffer", key, g)
        /\ UNCHANGED <<passDevice, renderPassCache, imageViews>>

\* A caller drops a RenderPass or Framebuffer handle.
Pass_drop_handle(o) ==
    LET p == Pass_drop(PassState(passObjects, passOrder), o)
    IN  /\ passObjects[o].handles > 0
        /\ passObjects' = [p.objs EXCEPT ![o].handles = @ - 1]
        /\ passOrder' = p.order
        /\ UNCHANGED <<passDevice, renderPassCache, framebufferCache, imageViews,
                       attachmentOf, passCall>>

\* Variant: dropping an image takes the framebuffers made with its view out
\* of the cache.
RECURSIVE Image_drop_framebuffers_Invalidating(_, _)
Image_drop_framebuffers_Invalidating(c, view) ==
    IF c = <<>> THEN <<>>
    ELSE (IF \E i \in DOMAIN Head(c).key.attachments :
                Head(c).key.attachments[i] = view
          THEN <<>> ELSE <<Head(c)>>)
         \o Image_drop_framebuffers_Invalidating(Tail(c), view)

\* What Drop for Image leaves of the framebuffer cache: it destroys the
\* image's views and has no access to the cache.
Image_drop_framebuffers(c, view) == c

\* Drop for Image, for an image with one view: destroy_image_view.
Image_drop_with_view(view) ==
    /\ imageViews[view].alive
    /\ imageViews' = [imageViews EXCEPT ![view].alive = FALSE]
    /\ framebufferCache' = Image_drop_framebuffers(framebufferCache, view)
    /\ UNCHANGED <<passDevice, renderPassCache, passObjects, passOrder,
                   attachmentOf, passCall>>

\* Image::view on a new image, when the driver gives the new view a raw
\* handle that a destroyed view had.
ImageView_new_with_handle(view) ==
    /\ passDevice.alive
    /\ ~imageViews[view].alive
    /\ imageViews' = [imageViews EXCEPT ![view].alive = TRUE,
                                         ![view].created = @ + 1]
    /\ UNCHANGED <<passDevice, renderPassCache, framebufferCache, passObjects,
                   passOrder, attachmentOf, passCall>>

\* Device { inner, render_pass_cache, framebuffer_cache }: the fields are
\* dropped in declaration order, each cache releasing its entries.
Device_drop_caches(p, render_pass_cache, framebuffer_cache) ==
    Pass_drop_entries(Pass_drop_entries(p, render_pass_cache), framebuffer_cache)

\* The Device is dropped.
Device_drop_passes ==
    LET p == Device_drop_caches(PassState(passObjects, passOrder),
                                renderPassCache, framebufferCache)
    IN  /\ passDevice.alive
        /\ passDevice' = [passDevice EXCEPT !.alive = FALSE]
        /\ renderPassCache' = <<>>
        /\ framebufferCache' = <<>>
        /\ passObjects' = p.objs
        /\ passOrder' = p.order
        /\ UNCHANGED <<imageViews, attachmentOf, passCall>>

\* After Device::new(size) and the creation of the image views.
Passes_new(size) ==
    /\ passDevice = [alive |-> TRUE, capacity |-> size]
    /\ renderPassCache = <<>>
    /\ framebufferCache = <<>>
    /\ passObjects = <<>>
    /\ passOrder = <<>>
    /\ imageViews = [v \in ImageViewHandles |-> [alive |-> TRUE, created |-> 1]]
    /\ attachmentOf = <<>>
    /\ passCall = [fn |-> "none", key |-> <<>>, obj |-> 0, constructed |-> FALSE,
                   n |-> 0]

InitPasses == Passes_new(RENDER_PASS_CACHE_SIZE)

(***************************************************************************)
(* Specifications.  Each drives one part of the backend from the state     *)
(* after construction and leaves the other parts as constructed.           *)
(***************************************************************************)
\* Device::new gives each cache its capacity.
DeviceCacheSize(kind) ==
    IF kind = "render_pass" THEN RENDER_PASS_CACHE_SIZE ELSE FRAMEBUFFER_CACHE_SIZE

InitDevice == CacheNew("render_pass", DeviceCacheSize("render_pass"))

InitDescriptorSet ==
    DescriptorSet_new(DescriptorSetLayout_new([entries |-> <<DescriptorSetLayoutEntry(0)>>]))

(***************************************************************************)
(* SpecCache: free exploration of one cache.  The two caches of a Device   *)
(* share no state, so each behaviour drives one of them; the capacity is   *)
(* the constructor's argument, so small capacities are explored next to    *)
(* the one Device::new passes.                                             *)
(***************************************************************************)
InitCache ==
    /\ \E kind \in {"render_pass", "framebuffer"} :
        \E size \in (1..MaxCacheSize) \cup {DeviceCacheSize(kind)} :
            CacheNew(kind, size)
    /\ terminated = FALSE
    /\ InitFrame
    /\ InitUsage
    /\ InitPasses
    /\ InitQueue
    /\ InitSwapchain
    /\ InitResources
    /\ InitCallers
    /\ InitPools
    /\ InitLifetime
    /\ InitAllocation
    /\ InitCommandBuffers
    /\ InitDescriptorSet

CreateRenderPass ==
    /\ Len(callLog) < MaxCalls
    /\ \E i \in 1..NumDescs : RenderPassCache_get_or_create(RenderPassDescAt(i))
    /\ UNCHANGED <<terminated, frameVars, descriptorVars, swapchainVars, resourceVars, commandVars, allocationVars, lifetimeVars, poolVars, callerVars,
                   queueVars, passVars, usageVars>>

CreateFramebuffer ==
    /\ Len(callLog) < MaxCalls
    /\ \E i \in 1..NumDescs : FramebufferCache_get_or_create(FramebufferDescAt(i))
    /\ UNCHANGED <<terminated, frameVars, descriptorVars, swapchainVars, resourceVars, commandVars, allocationVars, lifetimeVars, poolVars, callerVars,
                   queueVars, passVars, usageVars>>

DropAnyHandle ==
    /\ \E o \in 1..Len(objects) : DropHandle(o)
    /\ UNCHANGED <<terminated, frameVars, descriptorVars, swapchainVars, resourceVars, commandVars, allocationVars, lifetimeVars, poolVars, callerVars,
                   queueVars, passVars, usageVars>>

NextCache ==
    \/ CreateRenderPass
    \/ CreateFramebuffer
    \/ DropAnyHandle

SpecCache == InitCache /\ [][NextCache]_vars

(***************************************************************************)
(* SpecFill: a cache is filled with capacity + 1 pairwise distinct         *)
(* descriptors D1..D(N+1) in order, then probed with descriptors of the    *)
(* same range.  The caller keeps every handle except those of the first    *)
(* two objects, which it may drop at any time.                             *)
(***************************************************************************)
DescAt(kind, i) ==
    IF kind = "render_pass" THEN RenderPassKey_from(RenderPassDescAt(i))
    ELSE FramebufferKey_from(FramebufferDescAt(i))

InitFill == InitCache

Fill ==
    /\ Len(callLog) < capacity + 1
    /\ \/ RenderPassCache_get_or_create(RenderPassDescAt(Len(callLog) + 1))
       \/ FramebufferCache_get_or_create(FramebufferDescAt(Len(callLog) + 1))
    /\ UNCHANGED <<terminated, frameVars, descriptorVars, swapchainVars, resourceVars, commandVars, allocationVars, lifetimeVars, poolVars, callerVars,
                   queueVars, passVars, usageVars>>

Probe ==
    /\ Len(callLog) >= capacity + 1
    /\ Len(callLog) < capacity + 1 + MaxProbes
    /\ \E i \in 1..(capacity + 1) :
        \/ RenderPassCache_get_or_create(RenderPassDescAt(i))
        \/ FramebufferCache_get_or_create(FramebufferDescAt(i))
    /\ UNCHANGED <<terminated, frameVars, descriptorVars, swapchainVars, resourceVars, commandVars, allocationVars, lifetimeVars, poolVars, callerVars,
                   queueVars, passVars, usageVars>>

DropEarlyHandle ==
    /\ \E o \in 1..2 : DropHandle(o)
    /\ UNCHANGED <<terminated, frameVars, descriptorVars, swapchainVars, resourceVars, commandVars, allocationVars, lifetimeVars, poolVars, callerVars,
                   queueVars, passVars, usageVars>>

NextFill ==
    \/ Fill
    \/ Probe
    \/ DropEarlyHandle

SpecFill == InitFill /\ [][NextFill]_vars

(***************************************************************************)
(* SpecFrame: frames begun, submitted as Renderer::draw_frame submits      *)
(* them, and ended, with every answer the driver can give.                 *)
(***************************************************************************)
InitFrameSpec ==
    /\ InitDevice
    /\ terminated = FALSE
    /\ InitFrame
    /\ InitUsage
    /\ InitPasses
    /\ InitQueue
    /\ InitSwapchain
    /\ InitResources
    /\ InitCallers
    /\ InitPools
    /\ InitLifetime
    /\ InitAllocation
    /\ InitCommandBuffers
    /\ InitDescriptorSet

BeginFrame ==
    /\ Len(semaphores) < 2 * MaxFrames
    /\ \E createOk \in 0..2, result \in AcquireResults,
          index \in 0..(Len(swapchain.images) - 1) :
            Backend_begin_frame(createOk, result, index)
    /\ UNCHANGED <<cacheVars, descriptorVars, swapchainVars, resourceVars, commandVars, allocationVars, lifetimeVars, poolVars, callerVars,
                   queueVars, passVars, usageVars>>

Submit ==
    /\ \E result \in SubmitResults : Renderer_submit(result)
    /\ UNCHANGED <<cacheVars, descriptorVars, swapchainVars, resourceVars, commandVars, allocationVars, lifetimeVars, poolVars, callerVars,
                   queueVars, passVars, usageVars>>

EndFrame ==
    /\ \E presentResult \in PresentResults, waitResult \in WaitIdleResults :
            Backend_end_frame(presentResult, waitResult)
    /\ UNCHANGED <<cacheVars, descriptorVars, swapchainVars, resourceVars, commandVars, allocationVars, lifetimeVars, poolVars, callerVars,
                   queueVars, passVars, usageVars>>

NextFrame ==
    \/ BeginFrame
    \/ Submit
    \/ EndFrame

SpecFrame == InitFrameSpec /\ [][NextFrame]_vars

(***************************************************************************)
(* SpecDescriptor: a descriptor set of any explored layout is updated      *)
(* with any explored list of entries.                                      *)
(***************************************************************************)
InitDescriptor ==
    /\ InitDevice
    /\ terminated = FALSE
    /\ InitFrame
    /\ InitUsage
    /\ InitPasses
    /\ InitQueue
    /\ InitSwapchain
    /\ InitResources
    /\ InitCallers
    /\ InitPools
    /\ InitLifetime
    /\ InitAllocation
    /\ InitCommandBuffers
    /\ \E desc \in LayoutDescs : DescriptorSet_new(DescriptorSetLayout_new(desc))

Update ==
    /\ updateCalls < MaxUpdates
    /\ \E entries \in EntryLists : Device_update_descriptor_set(entries)
    /\ UNCHANGED <<cacheVars, frameVars, swapchainVars, resourceVars, commandVars, allocationVars, lifetimeVars, poolVars, callerVars,
                   queueVars, passVars, usageVars>>

NextDescriptor == Update

SpecDescriptor == InitDescriptor /\ [][NextDescriptor]_vars

(***************************************************************************)
(* SpecSwapchain: a Backend is built for a surface and its swapchain is    *)
(* resized.  The surface's capabilities are drawn once; each call draws    *)
(* its request.                                                            *)
(***************************************************************************)
InitSwapchainSpec ==
    /\ InitDevice
    /\ terminated = FALSE
    /\ InitDescriptorSet
    /\ semaphores = <<>>
    /\ frame = NoFrame
    /\ submitted = FALSE
    /\ driverLog = <<>>
    /\ ret = [fn |-> "none", frame |-> NoFrame, driver |-> <<>>, value |-> "none"]
    /\ swapchain = NoSwapchain
    /\ surface \in ValidSurfaceCapabilities
    /\ swapchain_desc = [format |-> "UNDEFINED", color_space |-> "SRGB_NONLINEAR",
                         extent |-> Extent2d(0, 0), present_mode |-> "FIFO",
                         image_count |-> 0]
    /\ swapchains = <<>>
    /\ swapchainLog = <<>>
    /\ lastResize = [fn |-> "none", width |-> 0, height |-> 0, value |-> "none"]
    /\ InitResources
    /\ InitPasses
    /\ InitUsage
    /\ InitQueue
    /\ InitCallers
    /\ InitPools
    /\ InitLifetime
    /\ InitAllocation
    /\ InitCommandBuffers

NewBackend ==
    /\ \E width \in Requests, height \in Requests, result \in CreateSwapchainResults :
            Backend_new(width, height, result)
    /\ UNCHANGED <<cacheVars, descriptorVars, resourceVars, commandVars, allocationVars, lifetimeVars, poolVars, callerVars,
                   queueVars, passVars, usageVars>>

Resize ==
    /\ Len(swapchains) <= MaxResizes
    /\ \E width \in Requests, height \in Requests, result \in CreateSwapchainResults :
            Backend_resize_swapchain(width, height, result)
    /\ UNCHANGED <<cacheVars, descriptorVars, resourceVars, commandVars, allocationVars, lifetimeVars, poolVars, callerVars,
                   queueVars, passVars, usageVars>>

NextSwapchain ==
    \/ NewBackend
    \/ Resize

SpecSwapchain == InitSwapchainSpec /\ [][NextSwapchain]_vars

(***************************************************************************)
(* SpecResource: buffers and images are created and dropped, the images of *)
(* a swapchain are wrapped and dropped with it, and one thread requests    *)
(* image views.                                                            *)
(***************************************************************************)
InitResourceSpec ==
    /\ InitDevice
    /\ terminated = FALSE
    /\ InitFrame
    /\ InitUsage
    /\ InitPasses
    /\ InitQueue
    /\ InitSwapchain
    /\ InitDescriptorSet
    /\ InitResources
    /\ InitCallers
    /\ InitPools
    /\ InitLifetime
    /\ InitAllocation
    /\ InitCommandBuffers

CreateBuffer ==
    /\ Len(resources) < MaxResources
    /\ \E failAt \in 0..3 : Buffer_new(failAt)
    /\ UNCHANGED <<cacheVars, frameVars, descriptorVars, swapchainVars, commandVars, allocationVars, lifetimeVars, poolVars, callerVars,
                   queueVars, passVars, usageVars>>

CreateImage ==
    /\ Len(resources) < MaxResources
    /\ \E failAt \in 0..3 : Image_new(failAt)
    /\ UNCHANGED <<cacheVars, frameVars, descriptorVars, swapchainVars, commandVars, allocationVars, lifetimeVars, poolVars, callerVars,
                   queueVars, passVars, usageVars>>

WrapSwapchainImage ==
    /\ Len(resources) < MaxResources
    /\ Image_from_raw
    /\ UNCHANGED <<cacheVars, frameVars, descriptorVars, swapchainVars, commandVars, allocationVars, lifetimeVars, poolVars, callerVars,
                   queueVars, passVars, usageVars>>

DropResource ==
    /\ \E r \in 1..Len(resources) : Resource_drop(r)
    /\ UNCHANGED <<cacheVars, frameVars, descriptorVars, swapchainVars, commandVars, allocationVars, lifetimeVars, poolVars, callerVars,
                   queueVars, passVars, usageVars>>

DropSwapchain ==
    /\ Swapchain_drop_with_images
    /\ UNCHANGED <<cacheVars, frameVars, descriptorVars, swapchainVars, commandVars, allocationVars, lifetimeVars, poolVars, callerVars,
                   queueVars, passVars, usageVars>>

\* The views the driver has made so far.
RECURSIVE ViewsMade(_)
ViewsMade(r) == IF r > Len(resources) THEN 0 ELSE resources[r].made + ViewsMade(r + 1)

MainViewLock ==
    /\ ViewsMade(1) < MaxViews
    /\ \E r \in 1..Len(resources), desc \in ImageViewDescs :
            Device_create_image_view(1, r, desc)
    /\ UNCHANGED <<cacheVars, frameVars, descriptorVars, swapchainVars, commandVars, allocationVars, lifetimeVars, poolVars, callerVars,
                   queueVars, passVars, usageVars>>

MainViewGet ==
    /\ \E result \in CreateResults : Image_view_get(1, result)
    /\ UNCHANGED <<cacheVars, frameVars, descriptorVars, swapchainVars, commandVars, allocationVars, lifetimeVars, poolVars, callerVars,
                   queueVars, passVars, usageVars>>

MainViewReturn ==
    /\ Image_view_return(1)
    /\ UNCHANGED <<cacheVars, frameVars, descriptorVars, swapchainVars, commandVars, allocationVars, lifetimeVars, poolVars, callerVars,
                   queueVars, passVars, usageVars>>

NextResource ==
    \/ CreateBuffer
    \/ CreateImage
    \/ WrapSwapchainImage
    \/ DropResource
    \/ DropSwapchain
    \/ MainViewLock
    \/ MainViewGet
    \/ MainViewReturn

SpecResource == InitResourceSpec /\ [][NextResource]_vars

(***************************************************************************)
(* SpecView: threads request views of two images, one built by Image::new  *)
(* and one wrapped by Image::from_raw.                                     *)
(***************************************************************************)
InitView ==
    /\ InitDevice
    /\ terminated = FALSE
    /\ InitFrame
    /\ InitUsage
    /\ InitPasses
    /\ InitQueue
    /\ InitCallers
    /\ InitSwapchain
    /\ InitDescriptorSet
    /\ resources = <<Resource("image", Some(1), Resource_new_calls("image", 1, 1, 0)),
                     Resource("image", None, <<>>)>>
    /\ allocations = Allocator_allocate(<<>>)
    /\ threads = [t \in 1..NumThreads |-> Idle]
    /\ viewLog = {}
    /\ InitLifetime
    /\ InitPools
    /\ InitAllocation
    /\ InitCommandBuffers

ViewLock ==
    /\ \E t \in DOMAIN threads, r \in 1..Len(resources), desc \in ImageViewDescs :
            Device_create_image_view(t, r, desc)
    /\ UNCHANGED <<cacheVars, frameVars, descriptorVars, swapchainVars, commandVars, allocationVars, lifetimeVars, poolVars, callerVars,
                   queueVars, passVars, usageVars>>

ViewGet ==
    /\ \E t \in DOMAIN threads, result \in CreateResults : Image_view_get(t, result)
    /\ UNCHANGED <<cacheVars, frameVars, descriptorVars, swapchainVars, commandVars, allocationVars, lifetimeVars, poolVars, callerVars,
                   queueVars, passVars, usageVars>>

ViewReturn ==
    /\ \E t \in DOMAIN threads : Image_view_return(t)
    /\ UNCHANGED <<cacheVars, frameVars, descriptorVars, swapchainVars, commandVars, allocationVars, lifetimeVars, poolVars, callerVars,
                   queueVars, passVars, usageVars>>

NextView ==
    \/ ViewLock
    \/ ViewGet
    \/ ViewReturn

SpecView == InitView /\ [][NextView]_vars

(***************************************************************************)
(* SpecCommand: on command buffers that are being recorded, render-pass    *)
(* and compute-pass encoders are opened, used and closed.                  *)
(***************************************************************************)
InitCommand ==
    /\ InitDevice
    /\ terminated = FALSE
    /\ InitFrame
    /\ InitUsage
    /\ InitPasses
    /\ InitQueue
    /\ InitSwapchain
    /\ InitDescriptorSet
    /\ InitResources
    /\ InitCallers
    /\ InitPools
    /\ InitLifetime
    /\ InitAllocation
    /\ commandBuffers = [c \in 1..NumCommandBuffers |->
                            Driver_begin_command_buffer(CommandBuffer_new)]
    /\ commandCall = CommandCall("begin", NumCommandBuffers, <<>>)

CacheFrameVars == <<cacheVars, frameVars, descriptorVars, swapchainVars, resourceVars>>

OtherVars == <<CacheFrameVars, allocationVars, lifetimeVars, poolVars, callerVars,
               queueVars, passVars, usageVars>>

OpenRenderPass ==
    /\ Recorded(1) < MaxCommands
    /\ Opened(1) < MaxEncoders
    /\ \E c \in DOMAIN commandBuffers :
        /\ CommandBuffer_begin_render_pass(c)
        /\ commandCall' = CommandCall("begin_render_pass", c, <<>>)
    /\ UNCHANGED OtherVars

OpenComputePass ==
    /\ Opened(1) < MaxEncoders
    /\ \E c \in DOMAIN commandBuffers :
        /\ CommandBuffer_begin_compute_pass(c)
        /\ commandCall' = CommandCall("begin_compute_pass", c, <<>>)
    /\ UNCHANGED OtherVars

RenderPassCall ==
    /\ Recorded(1) < MaxCommands
    /\ \E c \in DOMAIN commandBuffers : \E e \in 1..Len(commandBuffers[c].encoders) :
        \/ \E pipeline \in Pipelines :
            /\ RenderPassEncoder_bind_pipeline(c, e, pipeline)
            /\ commandCall' = CommandCall("bind_pipeline", c, <<e, pipeline>>)
        \/ RenderPassEncoder_set_viewport(c, e)
            /\ commandCall' = CommandCall("set_viewport", c, <<e>>)
        \/ RenderPassEncoder_set_scissor(c, e)
            /\ commandCall' = CommandCall("set_scissor", c, <<e>>)
        \/ RenderPassEncoder_set_viewport_and_scissor(c, e)
            /\ commandCall' = CommandCall("set_viewport_and_scissor", c, <<e>>)
        \/ RenderPassEncoder_bind_descriptor_set(c, e)
            /\ commandCall' = CommandCall("bind_descriptor_set", c, <<e>>)
        \/ RenderPassEncoder_push_constants(c, e)
            /\ commandCall' = CommandCall("push_constants", c, <<e>>)
        \/ RenderPassEncoder_bind_index_buffer(c, e)
            /\ commandCall' = CommandCall("bind_index_buffer", c, <<e>>)
        \/ RenderPassEncoder_draw(c, e)
            /\ commandCall' = CommandCall("draw", c, <<e>>)
        \/ RenderPassEncoder_draw_indexed(c, e)
            /\ commandCall' = CommandCall("draw_indexed", c, <<e>>)
    /\ UNCHANGED OtherVars

ComputePassCall ==
    /\ Recorded(1) < MaxCommands
    /\ \E c \in DOMAIN commandBuffers : \E e \in 1..Len(commandBuffers[c].encoders) :
        \/ \E pipeline \in Pipelines :
            /\ ComputePassEncoder_bind_pipeline(c, e, pipeline)
            /\ commandCall' = CommandCall("bind_pipeline", c, <<e, pipeline>>)
        \/ ComputePassEncoder_bind_descriptor_set(c, e)
            /\ commandCall' = CommandCall("bind_descriptor_set", c, <<e>>)
        \/ ComputePassEncoder_push_constants(c, e)
            /\ commandCall' = CommandCall("push_constants", c, <<e>>)
        \/ ComputePassEncoder_dispatch(c, e)
            /\ commandCall' = CommandCall("dispatch", c, <<e>>)
    /\ UNCHANGED OtherVars

CloseEncoder ==
    /\ \E c \in DOMAIN commandBuffers : \E e \in 1..Len(commandBuffers[c].encoders) :
        /\ Encoder_drop(c, e)
        /\ commandCall' = CommandCall("drop", c, <<e>>)
    /\ UNCHANGED OtherVars

NextCommand ==
    \/ OpenRenderPass
    \/ OpenComputePass
    \/ RenderPassCall
    \/ ComputePassCall
    \/ CloseEncoder

SpecCommand == InitCommand /\ [][NextCommand]_vars

(***************************************************************************)
(* SpecRecording: command buffers are begun and ended, transitions are     *)
(* recorded, and encoders are opened, used and closed, in any order the    *)
(* borrow rules allow.                                                     *)
(***************************************************************************)
\* The command buffers whose state the driver still defines: after a call it
\* does not allow, what the driver does with the command buffer is undefined
\* and the behaviour is followed no further on it.
Defined == {c \in DOMAIN commandBuffers : commandBuffers[c].state # "undefined"}

InitRecording ==
    /\ InitDevice
    /\ terminated = FALSE
    /\ InitFrame
    /\ InitUsage
    /\ InitPasses
    /\ InitQueue
    /\ InitSwapchain
    /\ InitDescriptorSet
    /\ InitResources
    /\ InitCallers
    /\ InitPools
    /\ InitLifetime
    /\ InitAllocation
    /\ InitCommandBuffers

Begin ==
    /\ Recorded(1) < MaxRecorded
    /\ \E c \in Defined, result \in CreateResults :
        /\ CommandBuffer_begin(c, result)
        /\ commandCall' = CommandCall("begin", c, <<>>)
    /\ UNCHANGED OtherVars

End ==
    /\ Recorded(1) < MaxRecorded
    /\ \E c \in Defined, result \in CreateResults :
        /\ CommandBuffer_end(c, result)
        /\ commandCall' = CommandCall("end", c, <<>>)
    /\ UNCHANGED OtherVars

Transition ==
    /\ Recorded(1) < MaxRecorded
    /\ \E c \in Defined, args \in TransitionInputs :
        /\ CommandBuffer_transition(c, args.buffer_barriers, args.image_barriers,
                                    args.src_stage_mask, args.dst_stage_mask)
        /\ commandCall' = CommandCall("transition", c, args)
    /\ UNCHANGED OtherVars

BeginRenderPass ==
    /\ Recorded(1) < MaxRecorded
    /\ Opened(1) < MaxEncoders
    /\ \E c \in Defined :
        /\ CommandBuffer_begin_render_pass(c)
        /\ commandCall' = CommandCall("begin_render_pass", c, <<>>)
    /\ UNCHANGED OtherVars

BeginComputePass ==
    /\ Opened(1) < MaxEncoders
    /\ \E c \in Defined :
        /\ CommandBuffer_begin_compute_pass(c)
        /\ commandCall' = CommandCall("begin_compute_pass", c, <<>>)
    /\ UNCHANGED OtherVars

Draw ==
    /\ Recorded(1) < MaxRecorded
    /\ \E c \in Defined : \E e \in 1..Len(commandBuffers[c].encoders) :
        /\ RenderPassEncoder_draw(c, e)
        /\ commandCall' = CommandCall("draw", c, <<e>>)
    /\ UNCHANGED OtherVars

Dispatch ==
    /\ Recorded(1) < MaxRecorded
    /\ \E c \in Defined : \E e \in 1..Len(commandBuffers[c].encoders) :
        /\ ComputePassEncoder_dispatch(c, e)
        /\ commandCall' = CommandCall("dispatch", c, <<e>>)
    /\ UNCHANGED OtherVars

EndPass ==
    /\ \E c \in Defined : \E e \in 1..Len(commandBuffers[c].encoders) :
        /\ Encoder_drop(c, e)
        /\ commandCall' = CommandCall("drop", c, <<e>>)
    /\ UNCHANGED OtherVars

NextRecording ==
    \/ Begin
    \/ End
    \/ Transition
    \/ BeginRenderPass
    \/ BeginComputePass
    \/ Draw
    \/ Dispatch
    \/ EndPass

SpecRecording == InitRecording /\ [][NextRecording]_vars

(***************************************************************************)
(* SpecAllocate: the memory request of a buffer or an image, for every     *)
(* usage.                                                                  *)
(***************************************************************************)
InitAllocate ==
    /\ InitDevice
    /\ terminated = FALSE
    /\ InitFrame
    /\ InitUsage
    /\ InitPasses
    /\ InitQueue
    /\ InitSwapchain
    /\ InitDescriptorSet
    /\ InitResources
    /\ InitCallers
    /\ InitPools
    /\ InitLifetime
    /\ InitCommandBuffers
    /\ allocationRequest \in BufferDescs \cup ImageDescs
    /\ allocationDesc = None

AllocateBuffer ==
    /\ allocationRequest.kind = "buffer"
    /\ ~allocationDesc.some
    /\ allocationDesc' = Some(Buffer_new_allocation_desc(allocationRequest))
    /\ UNCHANGED <<allocationRequest, terminated, CacheFrameVars, commandVars,
                   lifetimeVars, poolVars, callerVars, queueVars, passVars,
                   usageVars>>

AllocateImage ==
    /\ allocationRequest.kind = "image"
    /\ ~allocationDesc.some
    /\ allocationDesc' = Some(Image_new_allocation_desc(allocationRequest))
    /\ UNCHANGED <<allocationRequest, terminated, CacheFrameVars, commandVars,
                   lifetimeVars, poolVars, callerVars, queueVars, passVars,
                   usageVars>>

NextAllocate ==
    \/ AllocateBuffer
    \/ AllocateImage

SpecAllocate == InitAllocate /\ [][NextAllocate]_vars

(***************************************************************************)
(* Observations used by the properties.                                    *)
(***************************************************************************)
CacheKeys(c) == {c[i].key : i \in 1..Len(c)}

InCache(o) == \E i \in 1..Len(cache) : cache[i].val = o

\* The key was evicted by one of the calls numbered from..to.
EvictedIn(key, from, to) ==
    \E k \in from..to : \E e \in 1..Len(callLog[k].evicted) :
        callLog[k].evicted[e] = key

\* Number of the latest call made so far with this key.
LastUse(key) ==
    CHOOSE i \in 1..Len(callLog) :
        /\ callLog[i].key = key
        /\ \A j \in (i + 1)..Len(callLog) : callLog[j].key # key

\* This step is a get_or_create call.
IsCall == Len(callLog') = Len(callLog) + 1

CalledKey == callLog'[Len(callLog')].key

(***************************************************************************)
(* Properties of the object caches.                                        *)
(***************************************************************************)

\* C1 (as stated): any two get_or_create calls with structurally equal
\* descriptors return handles to the same driver object.
C1_EqualDescriptorsSameObject ==
    \A i, j \in 1..Len(callLog) :
        callLog[i].key = callLog[j].key => callLog[i].obj = callLog[j].obj

\* C1 (amended): two get_or_create calls with structurally equal descriptors
\* return handles to the same driver object provided the entry of that
\* descriptor is not evicted between the two calls.
C1_SameObjectWhileCached ==
    \A i, j \in 1..Len(callLog) :
        ( /\ i < j
          /\ callLog[i].key = callLog[j].key
          /\ ~EvictedIn(callLog[i].key, i + 1, j) )
        => callLog[i].obj = callLog[j].obj

\* Two calls with equal keys, other calls and an eviction of another key in
\* between, returned the same object.
C1_Witness ==
    \E i, j \in 1..Len(callLog) :
        /\ i + 1 < j
        /\ callLog[i].key = callLog[j].key
        /\ ~EvictedIn(callLog[i].key, i + 1, j)
        /\ \E k \in (i + 1)..(j - 1) : callLog[k].evicted # <<>>
        /\ callLog[i].obj = callLog[j].obj

\* C2: after capacity + 1 pairwise distinct descriptors D1..D(N+1) in order,
\* exactly D1 was evicted and D2..D(N+1) are cached; a following call for D2
\* constructs nothing and returns D2's object, a following call for D1
\* constructs a new object (also after the call for D2).
C2_FillEvictsFirst ==
    LET N == capacity
        K(i) == DescAt(cacheKind, i)
        n == Len(callLog)
    IN  /\ \A i \in 1..n :
            (i <= N) => (callLog[i].evicted = <<>> /\ callLog[i].constructed)
        /\ (n >= N + 1) =>
            (callLog[N + 1].evicted = <<K(1)>> /\ callLog[N + 1].constructed)
        /\ (n = N + 1) => (CacheKeys(cache) = {K(i) : i \in 2..(N + 1)})
        /\ (n >= N + 2 /\ callLog[N + 2].key = K(2)) =>
            (~callLog[N + 2].constructed /\ callLog[N + 2].obj = 2)
        /\ (n >= N + 2 /\ callLog[N + 2].key = K(1)) =>
            (callLog[N + 2].constructed /\ callLog[N + 2].obj = N + 2)
        /\ ( /\ n >= N + 3
             /\ callLog[N + 2].key = K(2)
             /\ callLog[N + 3].key = K(1) ) =>
            (callLog[N + 3].constructed /\ callLog[N + 3].obj = N + 2)

\* The render-pass cache of capacity 16 after D1..D17, a hit on D2 and a
\* miss on D1.
C2_Witness ==
    /\ cacheKind = "render_pass"
    /\ capacity = RENDER_PASS_CACHE_SIZE
    /\ Len(callLog) = capacity + 3
    /\ callLog[capacity + 2].key = DescAt(cacheKind, 2)
    /\ ~callLog[capacity + 2].constructed
    /\ callLog[capacity + 3].key = DescAt(cacheKind, 1)
    /\ callLog[capacity + 3].constructed

\* C3: a cached driver object is destroyed exactly once and only when its
\* last holder (the cache entry or a caller's handle) has released it: it is
\* never destroyed twice, and it is destroyed if and only if it is neither
\* in the cache nor held by a caller.
C3_DestroyedOnceAtLastRelease ==
    \A o \in 1..Len(objects) :
        /\ objects[o].destroyed <= 1
        /\ (objects[o].destroyed = 1)
            <=> (~InCache(o) /\ objects[o].handles = 0)

\* An object evicted from the cache while a caller still holds a handle to
\* it is alive, next to an evicted object that was destroyed.
C3_Witness ==
    /\ \E o \in 1..Len(objects) :
        ~InCache(o) /\ objects[o].handles > 0 /\ objects[o].destroyed = 0
    /\ \E o \in 1..Len(objects) : objects[o].destroyed = 1

\* C4: a get_or_create call whose key is in the cache constructs nothing,
\* returns the cached object and moves the entry to the most recently used
\* position; every entry a call removes is removed by a miss on a full
\* cache and is the entry whose latest get_or_create is the oldest.
C4_HitRefreshesLruEvicted ==
    [][IsCall =>
        LET last == callLog'[Len(callLog')] IN
        /\ (CalledKey \in CacheKeys(cache)) =>
            /\ Len(objects') = Len(objects)
            /\ ~last.constructed
            /\ \E i \in 1..Len(cache) :
                /\ cache[i].key = CalledKey
                /\ last.obj = cache[i].val
                /\ cache' = <<cache[i]>> \o SubSeq(cache, 1, i - 1)
                                       \o SubSeq(cache, i + 1, Len(cache))
        /\ \A e \in CacheKeys(cache) \ CacheKeys(cache') :
            /\ CalledKey \notin CacheKeys(cache)
            /\ Len(cache) = capacity
            /\ \A k \in CacheKeys(cache) \ {e} : LastUse(e) < LastUse(k)
    ]_vars

\* A hit on the first-inserted key was followed by a miss that evicted
\* another key, inserted later.
C4_Witness ==
    \E h, m \in 1..Len(callLog) :
        /\ 1 < h /\ h < m
        /\ callLog[h].key = callLog[1].key
        /\ ~callLog[h].constructed
        /\ callLog[m].evicted # <<>>
        /\ callLog[m].evicted[1] # callLog[1].key
        /\ callLog[1].key \in CacheKeys(cache)

\* C5: a cache never holds more entries than the capacity it was built
\* with (16 as built by Device::new), which never changes; it holds at most
\* one entry per key; an entry leaves the cache only in a get_or_create call
\* that misses while the cache is full.
C5_CapacityUniqueKeysEviction ==
    /\ [](/\ Len(cache) <= capacity
          /\ (capacity = DeviceCacheSize(cacheKind)) => (Len(cache) <= 16)
          /\ \A i, j \in 1..Len(cache) :
                (cache[i].key = cache[j].key) => (i = j))
    /\ [][/\ capacity' = capacity
          /\ \A e \in CacheKeys(cache) \ CacheKeys(cache') :
                /\ IsCall
                /\ CalledKey \notin CacheKeys(cache)
                /\ Len(cache) = capacity
       ]_vars

\* A cache built by Device::new is full with 16 entries after an eviction.
C5_Witness ==
    /\ capacity = DeviceCacheSize(cacheKind)
    /\ Len(cache) = 16
    /\ \E k \in 1..Len(callLog) : callLog[k].evicted # <<>>

(***************************************************************************)
(* Properties of the frame protocol.                                       *)
(***************************************************************************)
\* Position in driverLog of the latest call of this kind, 0 if none.
LastIndex(op) ==
    LET S == {i \in 1..Len(driverLog) : driverLog[i].op = op}
    IN  IF S = {} THEN 0 ELSE CHOOSE i \in S : \A j \in S : j <= i

Range(seq) == {seq[i] : i \in 1..Len(seq)}

\* The work of the frame begun last has been submitted.
FrameSubmitted == LastIndex("queue_submit") > LastIndex("acquire_next_image")

\* C6: the image-available semaphore signalled by the acquisition of
\* begin_frame is one the submitted work of that frame waits on, the
\* render-finished semaphore is the one that submission signals, and it is
\* the one the presentation of end_frame waits on.
C6_FrameSemaphoresPaired ==
    /\ (frame # NoFrame /\ FrameSubmitted) =>
        LET acquire == driverLog[LastIndex("acquire_next_image")]
            submit == driverLog[LastIndex("queue_submit")]
        IN  /\ acquire.signal_semaphores = <<frame[1].image_available>>
            /\ frame[1].image_available \in Range(submit.wait_semaphores)
            /\ submit.signal_semaphores = <<frame[1].render_finished>>
    /\ (ret.fn = "end_frame" /\ FrameSubmitted) =>
        LET submit == driverLog[LastIndex("queue_submit")]
            present == driverLog[LastIndex("queue_present")]
        IN  /\ submit.signal_semaphores = <<ret.frame[1].render_finished>>
            /\ present.wait_semaphores = <<ret.frame[1].render_finished>>

\* C9: begin_frame returns Err(OutdatedSwapchain) exactly when the driver
\* answers the acquisition with out-of-date; when the acquisition succeeds
\* it returns a Frame holding the ring entry at the driver's index and, as
\* image_available, the semaphore given to the acquisition; any other
\* answer ends the process.
C9_BeginFrameOutcome ==
    (ret.fn = "begin_frame") =>
        LET acquired == ret.driver # <<>>
            result == ret.driver[1].result
        IN  /\ (ret.value = "Err(OutdatedSwapchain)")
                <=> (acquired /\ result = "ERROR_OUT_OF_DATE_KHR")
            /\ (acquired /\ result \in VkSuccess) =>
                /\ ret.value = "Ok"
                /\ frame # NoFrame
                /\ frame[1].swapchain_image
                        = swapchain.images[ret.driver[1].image_index + 1]
                /\ frame[1].swapchain_image.index = ret.driver[1].image_index
                /\ ret.driver[1].signal_semaphores = <<frame[1].image_available>>
                /\ semaphores[frame[1].image_available].alive
            /\ (acquired /\ result \notin VkSuccess \cup {"ERROR_OUT_OF_DATE_KHR"}) =>
                (ret.value = "panic" /\ terminated)
            /\ (ret.value # "Ok") => (frame = NoFrame)

\* The second frame of a run was acquired at ring index 2.
C9_Witness ==
    /\ ret.fn = "begin_frame"
    /\ ret.value = "Ok"
    /\ ret.driver[1].image_index = 2
    /\ frame # NoFrame
    /\ frame[1].image_available = 3

\* C10 (as stated): end_frame presents the image index of the frame's
\* swapchain_image waiting on the frame's render_finished; it returns
\* Err(OutdatedSwapchain) exactly when the driver answers the presentation
\* with out-of-date, Ok otherwise, and any other presentation failure ends
\* the process.
C10_EndFrameOutcome ==
    (ret.fn = "end_frame") =>
        LET present == ret.driver[1]
            f == ret.frame[1]
        IN  /\ present.op = "queue_present"
            /\ present.image_index = f.swapchain_image.index
            /\ present.wait_semaphores = <<f.render_finished>>
            /\ (ret.value = "Err(OutdatedSwapchain)")
                <=> (present.result = "ERROR_OUT_OF_DATE_KHR")
            /\ (present.result \in VkSuccess) => (ret.value = "Ok")
            /\ (present.result \notin VkSuccess \cup {"ERROR_OUT_OF_DATE_KHR"}) =>
                (ret.value = "panic" /\ terminated)

\* C10 (amended): end_frame presents the image index of the frame's
\* swapchain_image waiting on the frame's render_finished; it returns
\* Err(OutdatedSwapchain) exactly when the driver answers the presentation
\* with out-of-date; when the presentation succeeds it returns Ok if the
\* device wait-idle that follows succeeds and ends the process if that wait
\* fails; any other presentation failure ends the process.
C10_EndFrameOutcomeWaitIdle ==
    (ret.fn = "end_frame") =>
        LET present == ret.driver[1]
            f == ret.frame[1]
        IN  /\ present.op = "queue_present"
            /\ present.image_index = f.swapchain_image.index
            /\ present.wait_semaphores = <<f.render_finished>>
            /\ (ret.value = "Err(OutdatedSwapchain)")
                <=> (present.result = "ERROR_OUT_OF_DATE_KHR")
            /\ (present.result \in VkSuccess) =>
                /\ Len(ret.driver) = 2
                /\ ret.driver[2].op = "device_wait_idle"
                /\ (ret.driver[2].result = "SUCCESS") => (ret.value = "Ok")
                /\ (ret.driver[2].result # "SUCCESS") =>
                    (ret.value = "panic" /\ terminated)
            /\ (present.result \notin VkSuccess \cup {"ERROR_OUT_OF_DATE_KHR"}) =>
                (ret.value = "panic" /\ terminated)

\* A frame acquired at ring index 1 was presented and end_frame returned Ok
\* after the device became idle.
C10_Witness ==
    /\ ret.fn = "end_frame"
    /\ ret.value = "Ok"
    /\ ret.frame[1].swapchain_image.index = 1
    /\ Len(ret.driver) = 2
    /\ ret.driver[1].result = "SUBOPTIMAL_KHR"

(***************************************************************************)
(* Properties of descriptor-set updates.                                   *)
(***************************************************************************)
\* This step is a call of update.
IsUpdate == updateCalls' = updateCalls + 1

\* The entries of the call name a binding absent from the set's layout.
NamesAbsentBinding(entries) ==
    \E i \in 1..Len(entries) : entries[i].binding \notin DOMAIN bindings

\* C7: an update whose entries name a binding absent from the set's layout
\* fails with the binding-not-found panic and hands no write to the driver,
\* also not for valid entries that precede the absent one.
C7_AbsentBindingNoWrite ==
    [][(IsUpdate /\ NamesAbsentBinding(lastUpdate'.entries)) =>
        /\ lastUpdate'.value = "panic: binding not found"
        /\ writeBatches' = writeBatches
        /\ lastBatch' = lastBatch
    ]_vars

\* An update failed whose first entry names a binding of the layout and
\* whose second does not, after an earlier update had succeeded.
C7_Witness ==
    /\ lastUpdate.value = "panic: binding not found"
    /\ Len(lastUpdate.entries) = 2
    /\ lastUpdate.entries[1].binding \in DOMAIN bindings
    /\ lastUpdate.entries[2].binding \notin DOMAIN bindings
    /\ writeBatches = 1
    /\ Len(lastBatch) > 0

\* C8: an update that names a binding absent from the layout returns an
\* error to the caller of Device::update_descriptor_set and the process
\* keeps running.
C8_AbsentBindingIsRecoverable ==
    (lastUpdate.value # "none" /\ NamesAbsentBinding(lastUpdate.entries)) =>
        (lastUpdate.value = "Err" /\ ~terminated)

\* C11: on every return path of end_frame (Ok and Err(OutdatedSwapchain))
\* the device wait-idle happens after the present call and before the
\* frame's image_available and render_finished semaphores are destroyed.
C11_WaitIdleBeforeSemaphoresDestroyed ==
    (ret.fn = "end_frame" /\ ret.value \in {"Ok", "Err(OutdatedSwapchain)"}) =>
        LET f == ret.frame[1]
            p == LastIndex("queue_present")
            w == LastIndex("device_wait_idle")
        IN  /\ p < w
            /\ ~semaphores[f.image_available].alive
            /\ ~semaphores[f.render_finished].alive
            /\ \A i \in 1..Len(driverLog) :
                ( /\ driverLog[i].op = "destroy_semaphore"
                  /\ driverLog[i].signal_semaphores[1]
                        \in {f.image_available, f.render_finished} )
                => w < i

(***************************************************************************)
(* Properties of the swapchain configuration.                              *)
(***************************************************************************)
\* The value nearest to v in [lo, hi].
Clamped(v, lo, hi) == IF v < lo THEN lo ELSE IF v > hi THEN hi ELSE v

\* The request of the last call clamped, per dimension, to the surface's
\* minimum and maximum extent.
ClampedRequest ==
    Extent2d(Clamped(lastResize.width, surface.min_image_extent.width,
                     surface.max_image_extent.width),
             Clamped(lastResize.height, surface.min_image_extent.height,
                     surface.max_image_extent.height))

\* C12: when the surface reports no fixed current extent, resize_swapchain
\* sets the swapchain extent, per dimension, to the request if it lies in
\* [min_image_extent, max_image_extent], to the minimum if the request is
\* below it and to the maximum if it is above.
C12_ResizeClampsPerDimension ==
    ( /\ lastResize.fn = "resize_swapchain"
      /\ surface.current_extent = Extent2d(U32_MAX, U32_MAX) )
    => swapchain_desc.extent = ClampedRequest

\* A resize whose width was raised to the minimum, whose height u32::MAX
\* was lowered to the maximum, after one whose request was kept.
C12_Witness ==
    /\ lastResize.fn = "resize_swapchain"
    /\ lastResize.value = "Ok"
    /\ Len(swapchains) = 3
    /\ surface.current_extent = Extent2d(U32_MAX, U32_MAX)
    /\ lastResize.width < surface.min_image_extent.width
    /\ lastResize.height = U32_MAX
    /\ surface.min_image_extent.height < surface.max_image_extent.height
    /\ swapchain_desc.extent = Extent2d(surface.min_image_extent.width,
                                        surface.max_image_extent.height)

\* C13 (as stated): when the surface reports a fixed current extent, in
\* either dimension, resize_swapchain and the initial configuration use
\* exactly that extent and ignore the request.
C13_FixedExtentEitherDimension ==
    ( /\ lastResize.fn \in {"new", "resize_swapchain"}
      /\ \/ surface.current_extent.width # U32_MAX
         \/ surface.current_extent.height # U32_MAX )
    => swapchain_desc.extent = surface.current_extent

\* C13 (amended): when the width of the surface's current extent is not
\* u32::MAX, resize_swapchain and the initial configuration use exactly the
\* current extent (width and height) and ignore the request; the height is
\* not examined, so a surface whose current width is u32::MAX has its
\* request clamped even if its current height is a fixed value.
C13_FixedExtentByWidth ==
    (lastResize.fn \in {"new", "resize_swapchain"}) =>
        /\ (surface.current_extent.width # U32_MAX)
            => (swapchain_desc.extent = surface.current_extent)
        /\ (surface.current_extent.width = U32_MAX)
            => (swapchain_desc.extent = ClampedRequest)

\* A resize on a surface with a fixed extent that the request and the
\* surface's maximum both differ from.
C13_Witness ==
    /\ lastResize.fn = "resize_swapchain"
    /\ lastResize.value = "Ok"
    /\ surface.current_extent = Extent2d(MaxExtent, MaxExtent)
    /\ surface.max_image_extent.width < MaxExtent
    /\ lastResize.width = 0
    /\ lastResize.height = U32_MAX
    /\ swapchain_desc.extent = Extent2d(MaxExtent, MaxExtent)

\* This step is a resize_swapchain call that returns.
IsResize ==
    /\ Len(swapchainLog') > Len(swapchainLog)
    /\ lastResize'.fn = "resize_swapchain"
    /\ lastResize'.value = "Ok"

\* C14: resize_swapchain creates the new swapchain while the previous one
\* is alive and names the previous one to the driver as old swapchain; the
\* previous one is destroyed exactly once, after the creation; when the
\* call returns the Backend holds the new swapchain and no other swapchain
\* is alive.
C14_ResizeReplacesSwapchain ==
    [][IsResize =>
        LET n == Len(swapchainLog)
            create == swapchainLog'[n + 1]
            destroy == swapchainLog'[n + 2]
        IN  /\ Len(swapchainLog') = n + 2
            /\ swapchains[swapchain.raw].alive
            /\ create.op = "create_swapchain"
            /\ create.old_swapchain = swapchain.raw
            /\ create.raw = swapchain'.raw
            /\ create.raw # swapchain.raw
            /\ destroy.op = "destroy_swapchain"
            /\ destroy.raw = swapchain.raw
            /\ swapchains'[swapchain.raw].destroyed = 1
            /\ \A r \in 1..Len(swapchains') :
                /\ swapchains'[r].alive <=> (r = swapchain'.raw)
                /\ swapchains'[r].destroyed = (IF r = swapchain'.raw THEN 0 ELSE 1)
    ]_vars

\* Two resizes have returned: the first and the second swapchain are
\* destroyed, the third is the Backend's.
C14_Witness ==
    /\ lastResize.fn = "resize_swapchain"
    /\ lastResize.value = "Ok"
    /\ Len(swapchains) = 3
    /\ swapchain.raw = 3
    /\ swapchains[1].destroyed = 1
    /\ swapchains[2].destroyed = 1
    /\ swapchains[3].alive

(***************************************************************************)
(* Observations on the calls made for one resource.                        *)
(***************************************************************************)
\* The positions of the calls named op in the log of resource r.
CallsOf(r, op) == {i \in 1..Len(resources[r].log) : resources[r].log[i].op = op}

\* Resource r is an Image built by Image::new (its first call made the raw
\* image), or one wrapped by Image::from_raw.
IsImage(r) == resources[r].type = "image"
BuiltByNew(r) == CallsOf(r, "create_" \o resources[r].type) # {}
Wrapped(r) == IsImage(r) /\ ~BuiltByNew(r)

\* C15: the drop of an Image wrapped by Image::from_raw never calls the
\* allocator's free and never destroys the raw image; the drop of an Image
\* built by Image::new calls free exactly once, for the image's own
\* allocation, and destroys the raw image exactly once.
C15_ImageDropByOrigin ==
    \A r \in 1..Len(resources) :
        /\ Wrapped(r) =>
            /\ CallsOf(r, "free") = {}
            /\ CallsOf(r, "destroy_image") = {}
        /\ (IsImage(r) /\ BuiltByNew(r) /\ resources[r].dropped) =>
            /\ Cardinality(CallsOf(r, "free")) = 1
            /\ Cardinality(CallsOf(r, "destroy_image")) = 1
            /\ \A i \in CallsOf(r, "free"), j \in CallsOf(r, "allocate") :
                    /\ resources[r].log[i].object = resources[r].log[j].object
                    /\ allocations[resources[r].log[i].object].frees = 1
            /\ \A i \in CallsOf(r, "destroy_image") : resources[r].log[i].object = r

\* C15 witness: an Image built by Image::new and an Image wrapped by
\* Image::from_raw have both been dropped.
C15_Witness ==
    \E r, q \in 1..Len(resources) :
        /\ IsImage(r) /\ BuiltByNew(r) /\ resources[r].dropped
        /\ Wrapped(q) /\ resources[q].dropped

\* The allocation that Buffer::new / Image::new made for resource r.
AllocationOf(r) == resources[r].log[CHOOSE i \in CallsOf(r, "allocate") : TRUE].object

\* C16: for every Buffer and every Image built by Image::new, the raw object
\* is created, its memory allocated and bound to it before the resource is
\* returned; while the resource is alive its allocation is held by the
\* allocator and has never been freed; when it has been dropped the
\* allocation has been freed exactly once, and the free came before the
\* destruction of the raw object.
C16_AllocationLifetime ==
    \A r \in 1..Len(resources) :
        LET res == resources[r]
            bind == "bind_" \o res.type \o "_memory"
            destroy == "destroy_" \o res.type
        IN  /\ (BuiltByNew(r) /\ res.alive) =>
                /\ Len(res.log) >= 3
                /\ res.log[1] = ResourceCall("create_" \o res.type, r)
                /\ res.log[2].op = "allocate"
                /\ res.log[3] = ResourceCall(bind, r)
                /\ res.allocation = Some(AllocationOf(r))
                /\ allocations[AllocationOf(r)] = [live |-> TRUE, frees |-> 0]
                /\ CallsOf(r, "free") = {}
                /\ CallsOf(r, destroy) = {}
            /\ (BuiltByNew(r) /\ res.dropped) =>
                /\ Cardinality(CallsOf(r, "free")) = 1
                /\ Cardinality(CallsOf(r, destroy)) = 1
                /\ allocations[AllocationOf(r)] = [live |-> FALSE, frees |-> 1]
                /\ \A i \in CallsOf(r, "free"), j \in CallsOf(r, destroy) :
                        /\ res.log[i].object = AllocationOf(r)
                        /\ i < j

\* C16 witness: a Buffer and an Image built by Image::new have both been
\* dropped.
C16_Witness ==
    \E r, q \in 1..Len(resources) :
        /\ resources[r].type = "buffer" /\ resources[r].dropped
        /\ IsImage(q) /\ BuiltByNew(q) /\ resources[q].dropped

\* The create_image_view calls made for image r with descriptor desc.
ViewCreations(r, desc) ==
    {i \in CallsOf(r, "create_image_view") : resources[r].log[i].desc = desc}

\* C17: for every Image, view requests with equal descriptors return the
\* same view, whichever thread makes them, and create_image_view is called
\* exactly once for each distinct descriptor requested of the Image.
C17_OneViewPerDescriptor ==
    /\ \A e1, e2 \in viewLog :
            (e1.image = e2.image /\ e1.desc = e2.desc) => (e1.view = e2.view)
    /\ \A r \in 1..Len(resources), desc \in ImageViewDescs :
            /\ Cardinality(ViewCreations(r, desc)) <= 1
            /\ (\E e \in viewLog : e.image = r /\ e.desc = desc) =>
                    \E i \in ViewCreations(r, desc) :
                        \A e \in viewLog :
                            (e.image = r /\ e.desc = desc) =>
                                (e.view = resources[r].log[i].object)

\* C17 witness: a request finds the view that an earlier request with an
\* equal descriptor made and returned, on an Image that has served two
\* distinct descriptors.
C17_Witness ==
    \E t \in DOMAIN threads :
        /\ threads[t].pc = "found"
        /\ [image |-> threads[t].image, desc |-> threads[t].desc,
            view |-> threads[t].view] \in viewLog
        /\ \E e \in viewLog : e.image = threads[t].image /\ e.desc # threads[t].desc

\* The calls that destroy the raw image of Image r: destroy_image for an
\* image built by Image::new, destroy_swapchain for an image of a swapchain.
RawImageDestroyed(r) == CallsOf(r, "destroy_image") \cup CallsOf(r, "destroy_swapchain")

\* C18: when an Image has been dropped, built by Image::new or wrapped by
\* Image::from_raw, every view made for it has been destroyed exactly once
\* and every such destruction came before the destruction of the raw image;
\* while an Image is alive none of its views has been destroyed.
C18_ViewsDestroyedBeforeRawImage ==
    \A r \in 1..Len(resources) :
        LET log == resources[r].log IN
        /\ (IsImage(r) /\ resources[r].alive) => CallsOf(r, "destroy_image_view") = {}
        /\ (IsImage(r) /\ resources[r].dropped) =>
            /\ \A i \in CallsOf(r, "create_image_view") :
                    Cardinality({j \in CallsOf(r, "destroy_image_view") :
                                    log[j].object = log[i].object}) = 1
            /\ \A j \in CallsOf(r, "destroy_image_view"), k \in RawImageDestroyed(r) :
                    j < k

(***************************************************************************)
(* Observations on command buffers.                                        *)
(***************************************************************************)
\* The positions in the log of command buffer c of the commands named op
\* that encoder n recorded.
CommandsOf(c, op, n) ==
    {k \in 1..Len(commandBuffers[c].log) :
        /\ commandBuffers[c].log[k].op = op
        /\ commandBuffers[c].log[k].encoder = n}

\* C19: a CommandBuffer has at most one open encoder, render-pass or
\* compute-pass; in a step taken while it has one, no further encoder is
\* opened on it and every command recorded into it (a begin, an end or a
\* transition would record one as the CommandBuffer itself) is recorded
\* through that encoder.
C19_EncoderExcludesOtherOperations ==
    [][\A c \in DOMAIN commandBuffers :
        LET cb == commandBuffers[c]
            after == commandBuffers'[c]
        IN  /\ Len(after.encoders) <= 1
            /\ (cb.encoders # <<>>) =>
                /\ after.opened = cb.opened
                /\ \A k \in (Len(cb.log) + 1)..Len(after.log) :
                        after.log[k].encoder = cb.encoders[1].id]_vars

\* C19 witness: a render-pass encoder is open on a CommandBuffer that began
\* recording, and it has recorded a command beyond the pass begin.
C19_Witness ==
    \E c \in DOMAIN commandBuffers :
        /\ Len(commandBuffers[c].encoders) = 1
        /\ commandBuffers[c].encoders[1].kind = "render"
        /\ CommandsOf(c, "begin_command_buffer", 0) # {}
        /\ CommandsOf(c, "cmd_draw", commandBuffers[c].encoders[1].id) # {}

\* The positions in the log of command buffer c of everything encoder n
\* recorded.
RecordedThrough(c, n) ==
    {k \in 1..Len(commandBuffers[c].log) : commandBuffers[c].log[k].encoder = n}

\* Encoder n of command buffer c is open.
IsOpen(c, n) ==
    \E e \in 1..Len(commandBuffers[c].encoders) : commandBuffers[c].encoders[e].id = n

\* Encoder n of command buffer c is a render-pass encoder: an open one of
\* that kind, or one that recorded a pass begin.
IsRenderPass(c, n) ==
    \/ \E e \in 1..Len(commandBuffers[c].encoders) :
            commandBuffers[c].encoders[e].id = n /\ commandBuffers[c].encoders[e].kind = "render"
    \/ CommandsOf(c, "cmd_begin_render_pass", n) # {}

\* C20: every render-pass encoder has recorded cmd_begin_render_pass exactly
\* once; it has recorded no cmd_end_render_pass while it is open and exactly
\* one once it is closed, whether a scope exit or a failed encoder call
\* closed it; everything recorded through it lies after its begin and, once
\* closed, before its end.
C20_PassBeginAndEndOnce ==
    \A c \in DOMAIN commandBuffers : \A n \in 1..commandBuffers[c].opened :
        IsRenderPass(c, n) =>
            LET begins == CommandsOf(c, "cmd_begin_render_pass", n)
                ends == CommandsOf(c, "cmd_end_render_pass", n)
            IN  /\ Cardinality(begins) = 1
                /\ Cardinality(ends) = IF IsOpen(c, n) THEN 0 ELSE 1
                /\ \A k \in RecordedThrough(c, n) :
                        /\ \A b \in begins : b <= k
                        /\ \A d \in ends : k <= d

\* C20 witness: a render-pass encoder recorded a draw and then a call that
\* needs a pipeline with none bound; the failed call closed it, with the
\* pass end as the last command recorded.
C20_Witness ==
    /\ terminated
    /\ \E c \in DOMAIN commandBuffers : \E n \in 1..commandBuffers[c].opened :
        /\ CommandsOf(c, "cmd_draw", n) # {}
        /\ CommandsOf(c, "cmd_bind_pipeline", n) = {}
        /\ ~IsOpen(c, n)
        /\ Len(commandBuffers[c].log) \in CommandsOf(c, "cmd_end_render_pass", n)

\* The commands that a step appends to the log of command buffer c.
Appended(c) ==
    SubSeq(commandBuffers'[c].log, Len(commandBuffers[c].log) + 1,
           Len(commandBuffers'[c].log))

\* The pipeline_layout of the pipeline that encoder n of command buffer c
\* bound last, read from the cmd_bind_pipeline calls it recorded.
LastBoundLayout(c, n) ==
    LET binds == CommandsOf(c, "cmd_bind_pipeline", n)
        last == CHOOSE k \in binds : \A j \in binds : j <= k
    IN  Pipeline(commandBuffers[c].log[last].args[1]).pipeline_layout

\* C21: on a render-pass and on a compute-pass encoder, bind_descriptor_set
\* and push_constants called before any bind_pipeline of that encoder end
\* the program at once and record no bind or push-constant command; called
\* after a bind_pipeline they record one command, with the layout of the
\* pipeline bound last.
C21_PipelineRequired ==
    [][\A c \in DOMAIN commandBuffers :
        (commandCall'.c = c /\ commandCall'.fn \in {"bind_descriptor_set", "push_constants"}) =>
            LET n == commandBuffers[c].encoders[commandCall'.args[1]].id
                op == IF commandCall'.fn = "push_constants"
                      THEN "cmd_push_constants" ELSE "cmd_bind_descriptor_sets"
            IN  IF CommandsOf(c, "cmd_bind_pipeline", n) = {}
                THEN /\ terminated'
                     /\ \A k \in 1..Len(Appended(c)) :
                            Appended(c)[k].op \notin
                                {"cmd_bind_descriptor_sets", "cmd_push_constants"}
                ELSE /\ ~terminated'
                     /\ Appended(c) = <<CommandWith(op, n, <<LastBoundLayout(c, n)>>)>>]_vars

\* C21 witness: a compute-pass encoder bound one pipeline, then another
\* with a different layout, and then pushed constants.
C21_Witness ==
    \E c \in DOMAIN commandBuffers :
        LET log == commandBuffers[c].log IN
        /\ commandCall = CommandCall("push_constants", c, <<1>>)
        /\ Len(log) >= 3
        /\ log[Len(log)].op = "cmd_push_constants"
        /\ log[Len(log) - 1].op = "cmd_bind_pipeline"
        /\ log[Len(log) - 2].op = "cmd_bind_pipeline"
        /\ log[Len(log) - 1].args # log[Len(log) - 2].args
        /\ log[Len(log)].args = <<Pipeline(log[Len(log) - 1].args[1]).pipeline_layout>>

\* C22: begin_render_pass and begin_compute_pass called on a CommandBuffer
\* that is not in the recording state (idle or recorded) are rejected: no
\* encoder is opened and nothing is recorded.
C22_EncoderOnlyWhileRecording ==
    [][\A c \in DOMAIN commandBuffers :
        (/\ commandCall'.c = c
         /\ commandCall'.fn \in {"begin_render_pass", "begin_compute_pass"}
         /\ commandBuffers[c].state \in {"idle", "recorded"}) =>
            /\ commandBuffers'[c].encoders = commandBuffers[c].encoders
            /\ commandBuffers'[c].opened = commandBuffers[c].opened
            /\ Appended(c) = <<>>]_vars

\* The last call was a begin / an end of command buffer c that the driver
\* reported as successful.
Succeeded(fn, c) == commandCall'.fn = fn /\ commandCall'.c = c /\ ~terminated'

C24_BarriersOnlyByTransition ==
    [][\A c \in DOMAIN commandBuffers :
        IF commandCall'.fn = "transition" /\ commandCall'.c = c
        THEN LET given == commandCall'.args
                 barrier == Appended(c)[1]
                 buffers == barrier.args[4]
                 images == barrier.args[5]
             IN  /\ commandBuffers[c].encoders = <<>>
                 /\ Len(Appended(c)) = 1
                 /\ commandBuffers'[c].commands =
                        Append(commandBuffers[c].commands, barrier)
                 /\ barrier.op = "cmd_pipeline_barrier"
                 /\ barrier.args[1] = given.src_stage_mask
                 /\ barrier.args[2] = given.dst_stage_mask
                 /\ Len(buffers) = Len(given.buffer_barriers)
                 /\ \A k \in 1..Len(buffers) :
                        /\ buffers[k].buffer = given.buffer_barriers[k].buffer
                        /\ buffers[k].src_access_mask = given.buffer_barriers[k].src_access_mask
                        /\ buffers[k].dst_access_mask = given.buffer_barriers[k].dst_access_mask
                 /\ Len(images) = Len(given.image_barriers)
                 /\ \A k \in 1..Len(images) :
                        /\ images[k].image = given.image_barriers[k].image
                        /\ images[k].src_access_mask = given.image_barriers[k].src_access_mask
                        /\ images[k].dst_access_mask = given.image_barriers[k].dst_access_mask
                        /\ images[k].old_layout = given.image_barriers[k].old_layout
                        /\ images[k].new_layout = given.image_barriers[k].new_layout
        ELSE \A k \in 1..Len(Appended(c)) : Appended(c)[k].op # "cmd_pipeline_barrier"]_vars

\* C24 witness: a transition with two buffer entries and an image entry has
\* been recorded into a recording CommandBuffer after another command.
C24_Witness ==
    \E c \in DOMAIN commandBuffers :
        LET commands == commandBuffers[c].commands IN
        /\ commandCall.fn = "transition" /\ commandCall.c = c
        /\ commandBuffers[c].state = "recording"
        /\ Len(commands) >= 2
        /\ commands[Len(commands)].op = "cmd_pipeline_barrier"
        /\ Len(commands[Len(commands)].args[4]) = 2
        /\ Len(commands[Len(commands)].args[5]) = 1
        /\ commands[Len(commands) - 1].op = "cmd_end_render_pass"

\* Bit number bit (0 for the lowest) of a u32 value is set.
BitSet(value, bit) == (value \div (2 ^ bit)) % 2 = 1

\* C25: the memory request of a buffer is linear and asks for device-to-host
\* memory (GpuToCpu) if the usage has MAP_READ (bit 0), else for
\* host-to-device memory (CpuToGpu) if it has MAP_WRITE (bit 1), else for
\* device-local memory (GpuOnly); the memory request of an image is
\* non-linear and device-local.
C25_MemoryLocationByUsage ==
    allocationDesc.some =>
        LET usage == allocationRequest.usage
            desc == allocationDesc.value
        IN  IF allocationRequest.kind = "buffer"
            THEN /\ desc.linear
                 /\ desc.location =
                        IF BitSet(usage, 0) THEN "GpuToCpu"
                        ELSE IF BitSet(usage, 1) THEN "CpuToGpu"
                        ELSE "GpuOnly"
            ELSE /\ ~desc.linear
                 /\ desc.location = "GpuOnly"

\* C25 witness: memory has been requested for a buffer whose usage has both
\* MAP_READ and MAP_WRITE, among other flags.
C25_Witness ==
    /\ allocationDesc.some
    /\ allocationRequest.kind = "buffer"
    /\ BitSet(allocationRequest.usage, 0)
    /\ BitSet(allocationRequest.usage, 1)
    /\ BitSet(allocationRequest.usage, 4)
    /\ allocationDesc.value.location = "GpuToCpu"

(***************************************************************************)
(* SpecLifetime: objects are made from the device and every holder is      *)
(* dropped in any order.                                                   *)
(***************************************************************************)
WaitResults == {"SUCCESS", "ERROR_DEVICE_LOST"}

LifetimeRest ==
    <<cacheVars, terminated, frameVars, descriptorVars, swapchainVars,
      resourceVars, commandVars, allocationVars, poolVars,
      callerVars, queueVars, passVars, usageVars>>

InitLifetimeSpec ==
    /\ InitDevice
    /\ terminated = FALSE
    /\ InitFrame
    /\ InitUsage
    /\ InitPasses
    /\ InitQueue
    /\ InitSwapchain
    /\ InitDescriptorSet
    /\ InitResources
    /\ InitCallers
    /\ InitPools
    /\ InitAllocation
    /\ InitCommandBuffers
    /\ InitLifetime

TheWorld == World(holders, backend, deviceInner)

SetWorld(w) ==
    /\ holders' = w.holders
    /\ backend' = w.backend
    /\ deviceInner' = w.deviceInner
    /\ UNCHANGED LifetimeRest

CreateObject ==
    \E kind \in DeviceObjects \cup CachedObjects :
        /\ backend.alive
        /\ Len(holders) < NumSwapchainImages + MaxHolders
        /\ SetWorld(Device_create(TheWorld, kind))

AcquireImage ==
    \E i \in DOMAIN holders :
        /\ backend.alive
        /\ holders[i].kind = "SwapchainImage"
        /\ ~holders[i].handle
        /\ SetWorld([TheWorld EXCEPT !.holders[i].handle = TRUE])

DropHolder ==
    \E i \in DOMAIN holders, result \in WaitResults :
        /\ holders[i].handle
        /\ SetWorld(Arc_drop_holder(TheWorld, i, "handle", holders[i].kind, result))

EvictCached ==
    \E i \in DOMAIN holders, result \in WaitResults :
        /\ backend.alive
        /\ holders[i].kind \in CachedObjects
        /\ holders[i].shared
        /\ SetWorld(Arc_drop_holder(TheWorld, i, "shared", holders[i].kind, result))

DropBackend ==
    \E result \in WaitResults :
        /\ backend.alive
        /\ SetWorld(Backend_drop(TheWorld, result))

NextLifetime ==
    \/ CreateObject
    \/ AcquireImage
    \/ DropHolder
    \/ EvictCached
    \/ DropBackend

SpecLifetime == InitLifetimeSpec /\ [][NextLifetime]_vars

\* The calls the Drop of DeviceInner has made, oldest first.
DeviceDropOps == [k \in DOMAIN deviceInner.log |-> deviceInner.log[k].op]

DeviceInnerDropped == deviceInner.log # <<>>

\* C26 as stated: once the device is being destroyed, its destruction has
\* made exactly the calls wait idle, release the allocator, destroy the driver
\* device, in this order and each once.
C26_DeviceDropSequence ==
    DeviceInnerDropped =>
        /\ DeviceDropOps = <<"device_wait_idle", "drop_allocator", "destroy_device">>
        /\ ~deviceInner.allocator
        /\ ~deviceInner.raw

\* C26, amended: the destruction of the device starts only when the last
\* reference to it is gone and runs once; when the wait for idle succeeds it
\* makes exactly the calls wait idle, release the allocator, destroy the
\* driver device, in this order; when the wait fails it panics, the allocator
\* is released by unwinding and the driver device is never destroyed.
C26_DeviceDropSequenceWhenIdle ==
    /\ DeviceInnerDropped <=> deviceInner.strong = 0
    /\ (DeviceInnerDropped /\ ~deviceInner.panicked) =>
        /\ DeviceDropOps = <<"device_wait_idle", "drop_allocator", "destroy_device">>
        /\ ~deviceInner.allocator
        /\ ~deviceInner.raw
    /\ (DeviceInnerDropped /\ deviceInner.panicked) =>
        /\ DeviceDropOps = <<"device_wait_idle", "drop_allocator">>
        /\ ~deviceInner.allocator
        /\ deviceInner.raw

\* C26 witness: the last reference was released, the wait succeeded and the
\* three calls were made.
C26_Witness ==
    /\ deviceInner.strong = 0
    /\ ~deviceInner.panicked
    /\ Len(deviceInner.log) = 3
    /\ deviceInner.log[3].op = "destroy_device"

\* C27: the allocator is released and the driver device destroyed only when
\* every object made from the device, and the swapchain, has been destroyed,
\* whatever the order in which the Backend and the objects are dropped.
C27_DeviceDestroyedLast ==
    /\ \A k \in DOMAIN deviceInner.log :
        deviceInner.log[k].op \in {"drop_allocator", "destroy_device"}
            => deviceInner.log[k].live = 0
    /\ (~deviceInner.allocator \/ ~deviceInner.raw) =>
        /\ \A i \in DOMAIN holders : holders[i].destroyed
        /\ ~backend.swapchain

\* C27 witness: the Backend was dropped while objects were still held, and the
\* driver device was destroyed by the drop of the last of them, a swapchain
\* image and a cached object among the objects.
C27_Witness ==
    /\ ~backend.alive
    /\ ~deviceInner.raw
    /\ \E k \in DOMAIN deviceInner.log :
        /\ deviceInner.log[k].op = "destroy_device"
        /\ deviceInner.log[k].by # "Backend"
        /\ deviceInner.log[k].live = 0
    /\ \E i \in DOMAIN holders : holders[i].kind \in CachedObjects
    /\ \E i \in DOMAIN holders : holders[i].kind \in DeviceObjects

(***************************************************************************)
(* SpecPools: descriptor sets are created from a layout of any explored    *)
(* descriptor and dropped in any order.                                    *)
(***************************************************************************)
DescriptorResults == {"SUCCESS", "ERROR_OUT_OF_POOL_MEMORY"}

PoolsRest ==
    <<cacheVars, frameVars, descriptorVars, swapchainVars, resourceVars,
      commandVars, allocationVars, lifetimeVars,
      callerVars, queueVars, passVars, usageVars>>

InitPoolsSpec ==
    /\ InitDevice
    /\ terminated = FALSE
    /\ InitFrame
    /\ InitUsage
    /\ InitPasses
    /\ InitQueue
    /\ InitSwapchain
    /\ InitDescriptorSet
    /\ InitResources
    /\ InitCallers
    /\ InitAllocation
    /\ InitCommandBuffers
    /\ InitLifetime
    /\ \E desc \in PoolLayoutDescs : setLayout = DescriptorSetLayout(desc)
    /\ descriptorSets = <<>>
    /\ descriptorPools = <<>>

CreateDescriptorSet ==
    /\ Len(descriptorPools) < MaxSets
    /\ \E poolResult \in DescriptorResults, allocResult \in DescriptorResults :
            Device_create_descriptor_set(setLayout, poolResult, allocResult)
    /\ UNCHANGED PoolsRest

DropDescriptorSet ==
    /\ \E s \in DOMAIN descriptorSets : DescriptorSet_drop(s)
    /\ UNCHANGED PoolsRest

NextPools ==
    \/ CreateDescriptorSet
    \/ DropDescriptorSet

SpecPools == InitPoolsSpec /\ [][NextPools]_vars

\* The sum of the counts of the layout entries of one descriptor type.
RECURSIVE CountOfType(_, _)
CountOfType(entries, ty) ==
    IF entries = <<>> THEN 0
    ELSE (IF Head(entries).ty = ty THEN Head(entries).count ELSE 0)
            + CountOfType(Tail(entries), ty)

TypesOf(entries) == {entries[i].ty : i \in DOMAIN entries}

\* C28: every descriptor set has a descriptor pool of its own, created with
\* max_sets = 1 and, for each descriptor type of the layout, one pool size
\* that is the sum of the counts of the layout's entries of that type (and
\* none for the other types); exactly one set is allocated from it; the pool
\* is destroyed once when the set is destroyed and not before.
C28_OnePoolPerSet ==
    /\ \A s \in DOMAIN descriptorSets :
        LET p == descriptorPools[descriptorSets[s].pool] IN
        /\ p.create_info.max_sets = 1
        /\ p.create_info.pool_sizes =
            {[ty |-> ty, descriptor_count |-> CountOfType(setLayout.entries, ty)] :
                ty \in TypesOf(setLayout.entries)}
        /\ p.sets = <<setLayout.raw>>
        /\ p.destroyed = (IF descriptorSets[s].alive THEN 0 ELSE 1)
    /\ \A s, t \in DOMAIN descriptorSets :
        descriptorSets[s].pool = descriptorSets[t].pool => s = t
    /\ ~terminated => Len(descriptorPools) = Len(descriptorSets)

\* C28 witness: two sets of a layout with two entries of one type, the first
\* of them dropped and its pool destroyed, the second still alive.
C28_Witness ==
    /\ Len(setLayout.entries) = 2
    /\ setLayout.entries[1].ty = setLayout.entries[2].ty
    /\ setLayout.entries[1].count = 1
    /\ setLayout.entries[2].count = 2
    /\ Len(descriptorSets) = 2
    /\ ~descriptorSets[1].alive
    /\ descriptorSets[2].alive
    /\ descriptorPools[descriptorSets[1].pool].destroyed = 1

(***************************************************************************)
(* SpecBatch: a descriptor set whose layout has every binding is updated   *)
(* with batches long enough for the vector of buffer infos to grow.        *)
(***************************************************************************)
MaxBatch == 5

BatchBindings == {0, 1}

\* The batches explored: entries for these bindings, in ascending order of
\* binding.
BatchLists ==
    {l \in UNION {[1..n -> {d \in Descriptors : d.binding \in BatchBindings}] :
                    n \in 0..MaxBatch} :
        \A i, j \in DOMAIN l : i <= j => l[i].binding <= l[j].binding}

InitBatch ==
    /\ InitDevice
    /\ terminated = FALSE
    /\ InitFrame
    /\ InitUsage
    /\ InitPasses
    /\ InitQueue
    /\ InitSwapchain
    /\ InitResources
    /\ InitCallers
    /\ InitPools
    /\ InitLifetime
    /\ InitAllocation
    /\ InitCommandBuffers
    /\ DescriptorSet_new(DescriptorSetLayout_new(
            [entries |-> AscendingEntries(0..(NumBindings - 1))]))

UpdateBatch ==
    /\ updateCalls < MaxUpdates
    /\ \E entries \in BatchLists : Device_update_descriptor_set(entries)
    /\ UNCHANGED <<cacheVars, frameVars, swapchainVars, resourceVars,
                   commandVars, allocationVars, lifetimeVars, poolVars, callerVars,
                   queueVars, passVars, usageVars>>

NextBatch == UpdateBatch

SpecBatch == InitBatch /\ [][NextBatch]_vars

\* C29: in a batch that reached the driver, every write reads, through its
\* reference into the sequence of buffer infos, the buffer info of its own
\* entry: no write is left pointing at a location that a later growth of the
\* sequence has invalidated.
C29_WritesReferToOwnBufferInfo ==
    (lastUpdate.value = "Ok") =>
        /\ Len(lastBatch) = Len(lastUpdate.entries)
        /\ \A i \in DOMAIN lastBatch :
            lastBatch[i].buffer_info =
                <<[buffer |-> lastUpdate.entries[i].resource.buffer,
                   offset |-> lastUpdate.entries[i].resource.offset,
                   range |-> lastUpdate.entries[i].resource.range]>>

(***************************************************************************)
(* SpecCallers: the threads call get_or_create of one cache with any of    *)
(* the explored descriptors, in any interleaving.                          *)
(***************************************************************************)
CallersRest ==
    <<terminated, frameVars, descriptorVars, swapchainVars, resourceVars,
      commandVars, allocationVars, lifetimeVars, poolVars, queueVars,
      passVars, usageVars>>

InitCallersSpec ==
    /\ \E kind \in {"render_pass", "framebuffer"} :
        \E size \in (1..MaxCacheSize) \cup {DeviceCacheSize(kind)} :
            CacheNew(kind, size)
    /\ terminated = FALSE
    /\ InitFrame
    /\ InitUsage
    /\ InitPasses
    /\ InitQueue
    /\ InitSwapchain
    /\ InitDescriptorSet
    /\ InitResources
    /\ InitPools
    /\ InitLifetime
    /\ InitAllocation
    /\ InitCommandBuffers
    /\ InitCallers

Entered == Len(callLog) + Cardinality({t \in DOMAIN callers : callers[t].pc # "idle"})

CallerEnter ==
    /\ Entered < MaxThreadCalls
    /\ \E t \in 1..NumThreads, i \in 1..NumDescs :
        Cache_enter(t, IF cacheKind = "render_pass"
                       THEN RenderPassKey_from(RenderPassDescAt(i))
                       ELSE FramebufferKey_from(FramebufferDescAt(i)))
    /\ UNCHANGED CallersRest

CallerLock ==
    /\ \E t \in 1..NumThreads : Cache_lock(t)
    /\ UNCHANGED CallersRest

CallerLookup ==
    /\ \E t \in 1..NumThreads : Cache_lookup(t)
    /\ UNCHANGED CallersRest

CallerInsert ==
    /\ \E t \in 1..NumThreads : Cache_insert(t)
    /\ UNCHANGED CallersRest

NextCallers ==
    \/ CallerEnter
    \/ CallerLock
    \/ CallerLookup
    \/ CallerInsert

SpecCallers == InitCallersSpec /\ [][NextCallers]_vars

\* Calls i < j of the log between which the key of call i stayed in the cache.
KeptBetween(i, j) ==
    \A k \in (i + 1)..j :
        \A e \in DOMAIN callLog[k].evicted : callLog[k].evicted[e] # callLog[i].key

\* C30: lookup and insertion happen under the cache's mutex as one step of
\* the cache: a thread between its lookup and its insertion holds the mutex;
\* calls with equal keys, overlapping or not, construct one driver object and
\* all return it as long as the key stays cached; the cache never exceeds its
\* capacity, holds a key once, and has the key of the last completed call at
\* its most recently used end.
C30_GetOrCreateAtomic ==
    /\ \A t \in DOMAIN callers :
        callers[t].pc \in {"lookup", "insert"} => cacheLock = t
    /\ \A i, j \in DOMAIN callLog :
        (i < j /\ callLog[i].key = callLog[j].key /\ KeptBetween(i, j)) =>
            /\ callLog[j].obj = callLog[i].obj
            /\ ~callLog[j].constructed
    /\ Cardinality({i \in DOMAIN callLog : callLog[i].constructed}) = Len(objects)
    /\ Len(cache) <= capacity
    /\ \A i, j \in DOMAIN cache : cache[i].key = cache[j].key => i = j
    /\ callLog # <<>> =>
        /\ cache[1].key = callLog[Len(callLog)].key
        /\ cache[1].val = callLog[Len(callLog)].obj

\* C30 witness: two threads were inside get_or_create with equal keys at the
\* same time; the first to finish constructed the object and the second
\* returned the same object without constructing one.
C30_Witness ==
    \E i, j \in DOMAIN callLog :
        /\ i < j
        /\ callLog[i].key = callLog[j].key
        /\ callLog[i].thread # callLog[j].thread
        /\ callLog[j].entered < i
        /\ callLog[i].constructed
        /\ ~callLog[j].constructed
        /\ callLog[j].obj = callLog[i].obj

(***************************************************************************)
(* SpecQueue: the queue operations of the Device are called with any of    *)
(* the explored arguments and driver results.                              *)
(***************************************************************************)
QueueRest ==
    <<cacheVars, frameVars, descriptorVars, swapchainVars, resourceVars,
      commandVars, allocationVars, lifetimeVars, poolVars, callerVars,
      passVars, usageVars>>

InitQueueSpec ==
    /\ InitDevice
    /\ terminated = FALSE
    /\ InitFrame
    /\ InitUsage
    /\ InitPasses
    /\ InitSwapchain
    /\ InitDescriptorSet
    /\ InitResources
    /\ InitPools
    /\ InitLifetime
    /\ InitAllocation
    /\ InitCommandBuffers
    /\ InitCallers
    /\ InitQueue

\* Lists of the objects 1..n, as [raw |-> ..] handles, in ascending order.
HandleLists(n) ==
    {l \in UNION {[1..k -> [raw : 1..n]] : k \in 0..n} :
        \A i, j \in DOMAIN l : i < j => l[i].raw < l[j].raw}

Fences == [raw : 1..NumFences]

Submit_queue ==
    /\ \E command_buffers \in HandleLists(NumCommandBuffers),
          wait_semaphores \in HandleLists(NumSemaphores),
          signal_semaphores \in HandleLists(NumSemaphores),
          fence \in {None} \cup {Some(f) : f \in Fences},
          result \in SubmitResults :
            Device_called(Device_submit_queue(
                [i \in DOMAIN command_buffers |-> command_buffers[i].raw],
                [i \in DOMAIN wait_semaphores |-> wait_semaphores[i].raw],
                [i \in DOMAIN signal_semaphores |-> signal_semaphores[i].raw],
                fence, result))
    /\ UNCHANGED QueueRest

Wait ==
    /\ \E fence \in Fences, result \in FenceResults :
            Device_called(Device_wait(fence, result))
    /\ UNCHANGED QueueRest

WaitIdle ==
    /\ \E result \in WaitIdleResults : Device_called(Device_wait_idle(result))
    /\ UNCHANGED QueueRest

ResetFence ==
    /\ \E fence \in Fences, result \in SubmitResults :
            Device_called(Device_reset_fence(fence, result))
    /\ UNCHANGED QueueRest

NextQueue ==
    \/ Submit_queue
    \/ Wait
    \/ WaitIdle
    \/ ResetFence

SpecQueue == InitQueueSpec /\ [][NextQueue]_vars

\* C31: when the driver reports a failure of a wait, Device::wait and
\* Device::wait_idle end the program and hand no error value to the caller.
C31_WaitFailureTerminates ==
    (deviceCall.fn \in {"wait", "wait_idle"} /\ deviceCall.driver.result # "SUCCESS") =>
        /\ deviceCall.value = "panic"
        /\ terminated

\* C32: Device::submit hands the universal queue one submission with exactly
\* the given command buffers, which waits on every given wait semaphore, each
\* with a stage mask, signals every given signal semaphore, and signals the
\* fence when one is given.
C32_SubmitAsGiven ==
    (deviceCall.fn = "submit") =>
        /\ deviceCall.driver.queue = "universal_queue"
        /\ Len(deviceCall.driver.submits) = 1
        /\ deviceCall.driver.submits[1].command_buffers = deviceCall.args.command_buffers
        /\ deviceCall.driver.submits[1].wait_semaphores = deviceCall.args.wait_semaphores
        /\ Len(deviceCall.driver.submits[1].wait_dst_stage_mask)
                = Len(deviceCall.args.wait_semaphores)
        /\ deviceCall.driver.submits[1].signal_semaphores = deviceCall.args.signal_semaphores
        /\ deviceCall.driver.fence =
                (IF deviceCall.args.fence.some THEN deviceCall.args.fence.value.raw
                 ELSE NullFence)

(***************************************************************************)
(* SpecPasses: render passes and framebuffers are created through the two  *)
(* caches of a Device, handles are dropped, images are dropped and their   *)
(* view handles given out again, and the Device is dropped.                *)
(***************************************************************************)
PassesRest ==
    <<cacheVars, terminated, frameVars, descriptorVars, swapchainVars,
      resourceVars, commandVars, allocationVars, lifetimeVars, poolVars,
      callerVars, queueVars, usageVars>>

InitPassesSpec ==
    /\ InitDevice
    /\ terminated = FALSE
    /\ InitFrame
    /\ InitUsage
    /\ InitSwapchain
    /\ InitDescriptorSet
    /\ InitResources
    /\ InitPools
    /\ InitLifetime
    /\ InitAllocation
    /\ InitCommandBuffers
    /\ InitCallers
    /\ InitQueue
    /\ \E size \in PassCacheSizes : Passes_new(size)

PassDescs == {1, 2}

PassCreateRenderPass ==
    /\ passCall.n < MaxPassCalls
    /\ \E i \in PassDescs : Device_create_render_pass(RenderPassDescAt(i))
    /\ UNCHANGED PassesRest

PassCreateFramebuffer ==
    /\ passCall.n < MaxPassCalls
    /\ \E o \in DOMAIN passObjects, v \in DOMAIN imageViews :
        /\ passObjects[o].kind = "render_pass"
        /\ passObjects[o].handles > 0
        /\ imageViews[v].alive
        /\ Device_create_framebuffer(
                [render_pass |-> [raw |-> o],
                 attachments |-> <<[image_view |-> [raw |-> v]]>>,
                 extent |-> [width |-> 800, height |-> 600]])
    /\ UNCHANGED PassesRest

PassDropHandle ==
    /\ \E o \in DOMAIN passObjects : Pass_drop_handle(o)
    /\ UNCHANGED PassesRest

PassDropImage ==
    /\ \E v \in DOMAIN imageViews : Image_drop_with_view(v)
    /\ UNCHANGED PassesRest

PassNewView ==
    /\ \E v \in DOMAIN imageViews :
        /\ imageViews[v].created + 1 \in ViewGenerations
        /\ ImageView_new_with_handle(v)
    /\ UNCHANGED PassesRest

PassDropDevice ==
    /\ Device_drop_passes
    /\ UNCHANGED PassesRest

NextPasses ==
    \/ PassCreateRenderPass
    \/ PassCreateFramebuffer
    \/ PassDropHandle
    \/ PassDropImage
    \/ PassNewView
    \/ PassDropDevice

SpecPasses == InitPassesSpec /\ [][NextPasses]_vars

IsFramebuffer(o) == passObjects[o].kind = "framebuffer"

\* The render pass a framebuffer was created against.
RenderPassOf(f) == passObjects[f].key.render_pass

DestroyedAt(o) == CHOOSE k \in DOMAIN passOrder : passOrder[k] = o

\* C33: no render pass is destroyed while a framebuffer created against it
\* is alive: when the render pass of a framebuffer has been destroyed, the
\* framebuffer was destroyed before it.
C33_FramebufferWithinRenderPass ==
    \A f \in DOMAIN passObjects :
        (IsFramebuffer(f) /\ passObjects[RenderPassOf(f)].destroyed > 0) =>
            /\ passObjects[f].destroyed > 0
            /\ DestroyedAt(f) < DestroyedAt(RenderPassOf(f))

CachedFramebuffer(key) ==
    CHOOSE i \in DOMAIN framebufferCache : framebufferCache[i].key = key

\* C34: the drop of an image destroys its view and leaves every entry of the
\* framebuffer cache in place, and a create_framebuffer whose key is in the
\* cache returns the cached framebuffer without constructing one, whether or
\* not the view it was constructed with still exists.
C34_NoInvalidationOnImageDrop ==
    /\ [][(\E v \in DOMAIN imageViews : imageViews[v].alive /\ ~imageViews'[v].alive) =>
            /\ framebufferCache' = framebufferCache
            /\ passObjects' = passObjects]_vars
    /\ [][(/\ passCall'.n # passCall.n
           /\ passCall'.fn = "create_framebuffer"
           /\ \E i \in DOMAIN framebufferCache :
                framebufferCache[i].key = passCall'.key) =>
            /\ ~passCall'.constructed
            /\ passCall'.obj = framebufferCache[CachedFramebuffer(passCall'.key)].val
            /\ passObjects'[passCall'.obj].destroyed = 0]_vars

\* C34 witness: the last create_framebuffer was a hit on a framebuffer whose
\* attachment view had been destroyed with its image; the view the caller
\* passed is a later one with the same raw handle.
C34_Witness ==
    /\ passCall.fn = "create_framebuffer"
    /\ ~passCall.constructed
    /\ attachmentOf[passCall.obj].view \in DOMAIN imageViews
    /\ attachmentOf[passCall.obj].generation
            < imageViews[attachmentOf[passCall.obj].view].created
    /\ passObjects[passCall.obj].destroyed = 0

(***************************************************************************)
(* Properties of a begin_frame that finds the swapchain out of date.       *)
(***************************************************************************)
\* The semaphores the driver holds alive.
LiveSemaphores == {s \in 1..Len(semaphores) : semaphores[s].alive}

\* This step is a call of begin_frame that returns Err(OutdatedSwapchain).
BeginFrameOutdated ==
    /\ Len(semaphores') > Len(semaphores)
    /\ ret'.fn = "begin_frame"
    /\ ret'.value = "Err(OutdatedSwapchain)"

ResizeRequests == {1, MaxExtent}

\* One resize in a behaviour, at any point of it.
ResizeBetweenCalls ==
    /\ Len(swapchainLog) = 1
    /\ \E size \in ResizeRequests, result \in CreateSwapchainResults :
            Backend_resize_swapchain(size, size, result)
    /\ UNCHANGED <<cacheVars, descriptorVars, resourceVars, commandVars,
                   allocationVars, lifetimeVars, poolVars, callerVars,
                   queueVars, passVars, usageVars>>

NextFrameResize ==
    \/ BeginFrame
    \/ Submit
    \/ EndFrame
    \/ ResizeBetweenCalls

SpecFrameResize == InitFrameSpec /\ [][NextFrameResize]_vars

\* C36: the image index end_frame presents was acquired from the swapchain
\* it is presented to: the swapchain named in the presentation is the one
\* the frame's image belongs to.
C36_PresentedOnAcquiringSwapchain ==
    (ret.fn = "end_frame") =>
        LET present == ret.driver[1]
            f == ret.frame[1]
        IN  /\ present.op = "queue_present"
            /\ present.image_index = f.swapchain_image.index
            /\ present.swapchain = f.swapchain_image.image.swapchain

(***************************************************************************)
(* SpecConfig: a Backend is built for a surface of any sampled image       *)
(* counts, formats and present modes, and its swapchain is resized.        *)
(***************************************************************************)
\* Format lists a surface answers with.
SurfaceFormatLists ==
    { <<SurfaceFormat("B8G8R8A8_UNORM", "SRGB_NONLINEAR")>>,
      <<SrgbNonlinear>>,
      <<SurfaceFormat("B8G8R8A8_SRGB", "EXTENDED_SRGB_LINEAR_EXT"),
        SurfaceFormat("B8G8R8A8_UNORM", "SRGB_NONLINEAR"),
        SrgbNonlinear>> }

\* Present modes a surface answers with.
SurfacePresentModes == SUBSET {"MAILBOX", "FIFO", "FIFO_RELAXED"}

\* Surfaces without a fixed extent: at least one image, a maximum of 0 (no
\* limit) or not below the minimum.
ConfigSurfaces ==
    { Surface(Extent2d(U32_MAX, U32_MAX), Extent2d(1, 1),
              Extent2d(MaxExtent, MaxExtent), minc, maxc, formats, modes) :
        minc \in 1..MaxImageCount, maxc \in 0..MaxImageCount,
        formats \in SurfaceFormatLists, modes \in SurfacePresentModes }

ValidConfigSurfaces ==
    { c \in ConfigSurfaces :
        c.max_image_count = 0 \/ c.min_image_count <= c.max_image_count }

InitConfig ==
    /\ InitDevice
    /\ terminated = FALSE
    /\ InitDescriptorSet
    /\ semaphores = <<>>
    /\ frame = NoFrame
    /\ submitted = FALSE
    /\ driverLog = <<>>
    /\ ret = [fn |-> "none", frame |-> NoFrame, driver |-> <<>>, value |-> "none"]
    /\ swapchain = NoSwapchain
    /\ surface \in ValidConfigSurfaces
    /\ swapchain_desc = [format |-> "UNDEFINED", color_space |-> "SRGB_NONLINEAR",
                         extent |-> Extent2d(0, 0), present_mode |-> "FIFO",
                         image_count |-> 0]
    /\ swapchains = <<>>
    /\ swapchainLog = <<>>
    /\ lastResize = [fn |-> "none", width |-> 0, height |-> 0, value |-> "none"]
    /\ InitResources
    /\ InitPasses
    /\ InitUsage
    /\ InitQueue
    /\ InitCallers
    /\ InitPools
    /\ InitLifetime
    /\ InitAllocation
    /\ InitCommandBuffers

ConfigNew ==
    /\ \E size \in ResizeRequests, result \in CreateSwapchainResults :
            Backend_new(size, size, result)
    /\ UNCHANGED <<cacheVars, descriptorVars, resourceVars, commandVars,
                   allocationVars, lifetimeVars, poolVars, callerVars,
                   queueVars, passVars, usageVars>>

ConfigResize ==
    /\ Len(swapchains) <= MaxResizes
    /\ \E width \in ResizeRequests, height \in ResizeRequests,
          result \in CreateSwapchainResults :
            Backend_resize_swapchain(width, height, result)
    /\ UNCHANGED <<cacheVars, descriptorVars, resourceVars, commandVars,
                   allocationVars, lifetimeVars, poolVars, callerVars,
                   queueVars, passVars, usageVars>>

NextConfig ==
    \/ ConfigNew
    \/ ConfigResize

SpecConfig == InitConfig /\ [][NextConfig]_vars

\* C39: the swapchain configuration computed at the construction of the
\* Backend asks for a number of images that is at least the surface's
\* min_image_count and, when max_image_count is not 0, at most
\* max_image_count; its present mode is one the surface supports or FIFO,
\* and it is FIFO_RELAXED when the surface supports FIFO_RELAXED.
C39_ConfigurationSupported ==
    (lastResize.fn = "new" /\ lastResize.value = "Ok") =>
        /\ swapchain_desc.image_count >= surface.min_image_count
        /\ (surface.max_image_count > 0)
            => (swapchain_desc.image_count <= surface.max_image_count)
        /\ swapchain_desc.present_mode \in surface.present_modes \cup {"FIFO"}
        /\ ("FIFO_RELAXED" \in surface.present_modes)
            => (swapchain_desc.present_mode = "FIFO_RELAXED")

\* This step is a call of resize_swapchain, returning or not.
IsResizeCall ==
    /\ Len(swapchainLog') > Len(swapchainLog)
    /\ lastResize'.fn = "resize_swapchain"

\* C40: resize_swapchain leaves format, color space, present mode and image
\* count of swapchain_desc as they are, so that they stay what the
\* construction of the Backend made them; after each resize that returns,
\* every image of the swapchain carries the extent of swapchain_desc, with
\* depth 1, and its format.
C40_ResizeChangesOnlyExtent ==
    /\ [][IsResizeCall =>
            /\ swapchain_desc'.format = swapchain_desc.format
            /\ swapchain_desc'.color_space = swapchain_desc.color_space
            /\ swapchain_desc'.present_mode = swapchain_desc.present_mode
            /\ swapchain_desc'.image_count = swapchain_desc.image_count
            /\ swapchain_desc'.extent
                    = make_swapchain_extent(surface, lastResize'.width,
                                            lastResize'.height)]_vars
    /\ []((lastResize.fn = "resize_swapchain" /\ lastResize.value = "Ok") =>
            /\ Len(swapchain.images) = swapchain_desc.image_count
            /\ \A i \in 1..Len(swapchain.images) :
                LET desc == swapchain.images[i].image.desc
                IN  /\ desc.format = swapchain_desc.format
                    /\ desc.extent = [width |-> swapchain_desc.extent.width,
                                      height |-> swapchain_desc.extent.height,
                                      depth |-> 1])

\* A Backend built at MaxExtent for a surface that allows two images and
\* supports FIFO_RELAXED was resized twice, last to 1 x 1.
C40_Witness ==
    /\ lastResize.fn = "resize_swapchain"
    /\ lastResize.value = "Ok"
    /\ Len(swapchains) = 3
    /\ swapchain_desc.image_count = 2
    /\ swapchain_desc.present_mode = "FIFO_RELAXED"
    /\ swapchain_desc.extent = Extent2d(1, 1)
    /\ swapchainLog[1].raw = 1
    /\ \A i \in 1..Len(swapchain.images) :
            swapchain.images[i].image.desc.extent.width = 1

(***************************************************************************)
(* SpecUsage: a buffer or an image is created, for every usage.            *)
(***************************************************************************)
InitUsageSpec ==
    /\ InitDevice
    /\ terminated = FALSE
    /\ InitFrame
    /\ InitPasses
    /\ InitQueue
    /\ InitSwapchain
    /\ InitDescriptorSet
    /\ InitResources
    /\ InitCallers
    /\ InitPools
    /\ InitLifetime
    /\ InitCommandBuffers
    /\ allocationRequest \in BufferDescs \cup ImageDescs
    /\ allocationDesc = None
    /\ createInfo = None

NewBuffer ==
    /\ allocationRequest.kind = "buffer"
    /\ ~createInfo.some
    /\ createInfo' = Some(Buffer_new_create_info(allocationRequest))
    /\ allocationDesc' = Some(Buffer_new_allocation_desc(allocationRequest))
    /\ UNCHANGED <<allocationRequest, terminated, CacheFrameVars, commandVars,
                   lifetimeVars, poolVars, callerVars, queueVars, passVars>>

NewImage ==
    /\ allocationRequest.kind = "image"
    /\ ~createInfo.some
    /\ createInfo' = Some(Image_new_create_info(allocationRequest))
    /\ allocationDesc' = Some(Image_new_allocation_desc(allocationRequest))
    /\ UNCHANGED <<allocationRequest, terminated, CacheFrameVars, commandVars,
                   lifetimeVars, poolVars, callerVars, queueVars, passVars>>

NextUsage ==
    \/ NewBuffer
    \/ NewImage

SpecUsage == InitUsageSpec /\ [][NextUsage]_vars

\* The driver's flag for each usage a descriptor can declare.
BufferUsageFlag ==
    [TRANSFER_SRC |-> "TRANSFER_SRC", TRANSFER_DST |-> "TRANSFER_DST",
     UNIFORM |-> "UNIFORM_BUFFER", STORAGE |-> "STORAGE_BUFFER",
     INDEX |-> "INDEX_BUFFER", VERTEX |-> "VERTEX_BUFFER",
     INDIRECT |-> "INDIRECT_BUFFER"]

ImageUsageFlag ==
    [TRANSFER_SRC |-> "TRANSFER_SRC", TRANSFER_DST |-> "TRANSFER_DST",
     SAMPLED |-> "SAMPLED", STORAGE |-> "STORAGE",
     COLOR_ATTACHMENT |-> "COLOR_ATTACHMENT",
     DEPTH_STENCIL_ATTACHMENT |-> "DEPTH_STENCIL_ATTACHMENT"]

\* C37: the usage flags given to the driver at the creation of a buffer or
\* an image contain the driver's flag of every usage the descriptor
\* declares, whatever the combination declared.
C37_EveryDeclaredUsageGiven ==
    createInfo.some =>
        IF allocationRequest.kind = "buffer"
        THEN \A u \in DOMAIN BufferUsage :
                BitFlags_contains(allocationRequest.usage, BufferUsage[u])
                    => BufferUsageFlag[u] \in createInfo.value.usage
        ELSE \A u \in DOMAIN ImageUsage :
                BitFlags_contains(allocationRequest.usage, ImageUsage[u])
                    => ImageUsageFlag[u] \in createInfo.value.usage

(***************************************************************************)
(* Properties of the destruction of a Backend.                             *)
(***************************************************************************)
\* Position of a driver object in the order of destruction, 0 if it has not
\* been destroyed.
DestroyedAs(object) ==
    LET S == {k \in DOMAIN backend.destroyed : backend.destroyed[k] = object}
    IN  IF S = {} THEN 0 ELSE CHOOSE k \in S : TRUE

\* Both were destroyed, the first before the second.
DestroyedInOrder(first, second) ==
    /\ DestroyedAs(first) > 0
    /\ DestroyedAs(first) < DestroyedAs(second)

\* The Backend was dropped while nothing made from its device was held
\* elsewhere: its drop released the last reference to the device.
BackendDroppedAlone ==
    /\ ~backend.alive
    /\ DeviceInnerDropped
    /\ deviceInner.log[1].by = "Backend"
    /\ ~deviceInner.panicked

\* C38: when a Backend is dropped with no resources of it held elsewhere,
\* the swapchain is destroyed before the device, the device before the
\* instance, and the surface before the instance.
C38_ChildrenDestroyedFirst ==
    BackendDroppedAlone =>
        /\ DestroyedInOrder("swapchain", "device")
        /\ DestroyedInOrder("device", "instance")
        /\ DestroyedInOrder("surface", "instance")

====
